---- MODULE Spec2Model ----
(***************************************************************************)
(* Session lifecycle layer: the session activity tracker                   *)
(* (Signal/session-activity-tracker.ts), the retention-driven session      *)
(* cleanup (Signal/session-cleanup.ts) and the decryption pipeline         *)
(* (decryptMessageNode).                                                   *)
(*                                                                         *)
(* Every async function is cut at its await points: the synchronous prefix *)
(* up to an await is one action, the settling of the awaited store call    *)
(* together with the continuation that follows it is the next action.      *)
(***************************************************************************)
EXTENDS Integers, FiniteSets, Sequences, TLC

----------------------------------------------------------------------------
(* Bounds of the model *)

MaxUpdates == 2        \* recordActivity calls in one behaviour
MaxClock == 2          \* last instant the tracker's clock reaches
MaxSessions == 2       \* session records in the store at construction
CfgLidOrphanHours == 1            \* configured config.lidOrphanHours
CfgSecondaryDeviceInactiveDays == 1   \* configured config.secondaryDeviceInactiveDays
CfgPrimaryDeviceInactiveDays == 2     \* configured config.primaryDeviceInactiveDays

MaxNodes == 2          \* children of the stanza that decrypt() walks through
MaxStarts == 2         \* start() calls of the cleanup scheduler that set a timer
MaxResyncs == 2        \* resyncAppState calls in one behaviour
MaxMorePatches == 1    \* answers with has_more_patches that one resyncAppState call gets
MaxLookups == 3        \* getLIDForPN calls in one behaviour
MaxStores == 2         \* storeLIDPNMappings calls in one behaviour
MaxBatch == 2          \* mappings in one batch
MaxMigrations == 3     \* migrateSession calls in one behaviour
MaxOfflineArrivals == 2  \* CB:ib,,offline stanzas that one socket receives
MaxAcks == 3           \* bad acks handled in one behaviour
MaxBuilds == 2         \* buildTcTokenFromJid calls in one behaviour
MaxBucketsPassed == 1  \* token buckets that go by in one behaviour
MaxTcStores == 2       \* storeTcTokensFromIqResult calls in one behaviour
MaxTokenNodes == 2     \* token nodes in one IQ result

(* Program constants *)

HOUR_MS == 3600000     \* 60 * 60 * 1000
DAY_MS == 86400000     \* 24 * 60 * 60 * 1000
MAX_ATTEMPTS == 3      \* DECRYPTION_RETRY_OPTIONS.maxAttempts
SESSION_RECORD_RETRY_BELOW == 3   \* shouldRetry: attempt < 3
UNKNOWN_ERROR_RETRY_BELOW == 2    \* shouldRetry: attempt < 2
LAST_SECONDARY_DEVICE == 5        \* cleanupCorruptedSession: for (i = 1; i <= 5; i++)
MAX_SYNC_ATTEMPTS == 2            \* Utils/chat-utils: MAX_SYNC_ATTEMPTS
MIGRATION_CACHE_TTL == 604800000  \* 7 * 24 * 60 * 60 * 1000
OFFLINE_BUFFER_TIMEOUT_MS == 5000 \* 5_000
RETRY_KEY_TTL_MS == 60000         \* 60_000
TC_TOKEN_BUCKET_DURATION == 604800
TC_TOKEN_NUM_BUCKETS == 4

----------------------------------------------------------------------------
(* Identities *)

Users == {"u1"}
Devices == {0, 1}
Domains == {0, 2, 6}

\* Signal address "user_domain.device", the key of a session record
SessionAddrs == [user : Users, domain : Domains, device : Devices]

\* `${user}@lid`
LidJid(user) == [user |-> user, device |-> 0, server |-> "lid"]

\* `${user}${device > 0 ? `:${device}` : ''}@s.whatsapp.net`
PnJid(user, device) == [user |-> user, device |-> device, server |-> "s.whatsapp.net"]

Jids == {LidJid(u) : u \in Users} \cup {PnJid(u, d) : u \in Users, d \in Devices}

\* `session-activity:${jid}`
ActivityKey(jid) == [prefix |-> "session-activity:", jid |-> jid]

\* key.replace('session-activity:', '')
StripPrefix(key) == key.jid

\* a map (JS Map / plain object) is a function on the set of its keys
EmptyMap == [x \in {} |-> 0]

MapSet(m, k, v) == [x \in (DOMAIN m) \cup {k} |-> IF x = k THEN v ELSE m[x]]

MapGet(m, k) == IF k \in DOMAIN m THEN m[k] ELSE -1   \* -1 stands for undefined

\* JavaScript truthiness of a number | undefined
Truthy(v) == v # -1 /\ v # 0

\* instants at which a cleanup run may observe Date.now(), for activity
\* recorded at instant 1
Clock ==
    LET o == CfgLidOrphanHours * HOUR_MS
        s == CfgSecondaryDeviceInactiveDays * DAY_MS
        p == CfgPrimaryDeviceInactiveDays * DAY_MS
    IN {1, 1 + o, 2 + o, 1 + s, 2 + s, 1 + p, 2 + p}

----------------------------------------------------------------------------
VARIABLES
    now,            \* Date.now()
    ret,            \* what the latest step returned to its caller
    activityStore,  \* namespace 'session-activity' of the key store
    trackerEnabled, \* config.enabled of the tracker
    activityCache,  \* activityCache: Map<jid, timestamp>
    isDirty,        \* isDirty
    stats,          \* stats of the tracker
    fpc,            \* position of each flush() call: "idle" | "txn"
    fupdates,       \* updates built by each flush() call in progress
    gpc,            \* position of the getAllActivities() call: "idle" | "read"
    gread,          \* what its keys.get settled with
    flushInterval,  \* flushInterval is not null
    timers,         \* interval timers set and not cleared
    forigin,        \* who made each flush() call in progress
    sessionStore,   \* namespace 'session' of the key store: the signal addresses that hold a record
    lidMapped,      \* LID users for which lidMapping.getPNForLID returns a phone number
    cleanupEnabled, \* config.enabled of the cleanup
    trackerPresent, \* sessionActivityTracker is not null
    cleanupRunning, \* cleanupRunning
    lastCleanupAt,  \* lastCleanupAt
    call,           \* the locals of each runCleanup() call
    dec,            \* the locals of the decrypt() call and the fullMessage it fills
    cleanupOnStartup,       \* config.cleanupOnStartup of the cleanup
    initialTimeout,         \* initialTimeout: the handle it holds, 0 for null
    cleanupInterval,        \* cleanupInterval: the handle it holds, 0 for null
    startupCleanupPromise,  \* startupCleanupPromise: the promise it holds, 0 for null
    timeouts,               \* the setTimeout calls of start() and their callbacks, by handle
    intervals,              \* the setInterval calls of the timeout callbacks, by handle
    promises,               \* the promises start() assigned to startupCleanupPromise
    syncState,              \* syncState of the chats socket
    blockedCollections,     \* blockedCollections
    awaitingSyncTimeout,    \* awaitingSyncTimeout is set
    versions,               \* key store, 'app-state-sync-version': version by collection, -1 for none
    resyncQueue,            \* the resyncAppState calls made and not finished, the first one running
    rs,                     \* the locals of the running resyncAppState call
    resyncsMade,            \* how many resyncAppState calls were made
    mappingStore,           \* key store, 'lid-mapping': the LID stored for a phone number, "none" for none
    lidCache,               \* cache of the mapping store, phone number -> LID
    pnCache,                \* cache of the mapping store, LID -> phone number
    pendingRequests,        \* pendingRequests: the resolution in flight for a key, 0 for none
    lookups,                \* the resolutions started, by number
    lookupCalls,            \* the getLIDForPN calls made, by number
    storeCall,              \* the locals of the storeLIDPNMappings call in progress
    lastStore,              \* the batch and the result of the latest finished storeLIDPNMappings call
    storesMade,             \* how many storeLIDPNMappings calls were made
    deviceList,             \* key store, 'device-list': the devices known of the user
    migratedSessionCache,   \* migratedSessionCache: when each device was migrated, -1 for no entry
    migration,              \* the locals of the migrateSession call in progress
    lastMigration,          \* the latest migrateSession call that returned, and what it returned
    migrationsMade,         \* how many migrateSession calls were made
    mergeHandler,           \* the locals of the 'lid-mapping.update' handler in progress
    emitted,                \* the 'chats.update' events emitted: how many, and the payload of the latest
    didStartBuffer,         \* didStartBuffer
    offlineBufferTimeout,   \* offlineBufferTimeout: the handle it holds, 0 for undefined
    bufferTimer,            \* the setTimeout call of startBuffer and its state
    bufferFlushes,             \* how many times ev.flush() was called
    warnCalls,              \* how many times the timeout was logged
    socketClosed,           \* end() has run
    offlineArrivals,        \* how many CB:ib,,offline stanzas arrived
    tcTokenRetriedMsgIds,   \* tcTokenRetriedMsgIds: the retry keys held
    retryKeyTimers,         \* the setTimeout calls that delete a retry key, not fired yet
    ackCalls,               \* the handleBadAck calls that went on to retry, by number
    acksHandled,            \* how many bad acks were handled
    tcTokens,               \* the 'tctoken' entries of authState.keys, by storage jid
    tcClock,                \* Math.floor(Date.now() / 1000)
    tcCall,                 \* the buildTcTokenFromJid call in progress
    tcSetCalls,             \* how many times keys.set was called
    tcBuilds,               \* how many buildTcTokenFromJid calls were made
    tcStoreCalls,           \* the storeTcTokensFromIqResult calls, by number
    signalSessions,         \* the identities the repository holds a session for
    corruptedCall           \* the cleanupCorruptedSession call in progress

trackerVars == <<activityStore, trackerEnabled, activityCache, isDirty, stats,
                 fpc, fupdates, gpc, gread, flushInterval, timers, forigin>>

cleanupVars == <<sessionStore, lidMapped, cleanupEnabled, trackerPresent,
                 cleanupRunning, lastCleanupAt, call>>

pipelineVars == <<dec>>

schedulerVars == <<cleanupOnStartup, initialTimeout, cleanupInterval,
                   startupCleanupPromise, timeouts, intervals, promises>>

\* the state of the components around the tracker, the cleanup run and the
\* decryption pipeline
syncVars == <<syncState, blockedCollections, awaitingSyncTimeout, versions, resyncQueue, rs,
              resyncsMade>>

storeVars == <<storeCall, lastStore, storesMade>>

mappingVars == <<mappingStore, lidCache, pnCache, pendingRequests, lookups, lookupCalls,
                 storeVars>>

migrationVars == <<deviceList, migratedSessionCache, migration, lastMigration, migrationsMade>>

mergeVars == <<mergeHandler, emitted>>

bufferVars == <<didStartBuffer, offlineBufferTimeout, bufferTimer, bufferFlushes, warnCalls,
                socketClosed, offlineArrivals>>

ackVars == <<tcTokenRetriedMsgIds, retryKeyTimers, ackCalls, acksHandled>>

\* the components added after the mapping store and the migration
tcTokenVars == <<tcTokens, tcClock, tcCall, tcSetCalls, tcBuilds, tcStoreCalls>>

corruptedVars == <<signalSessions, corruptedCall>>

socketVars == <<bufferVars, ackVars, tcTokenVars, corruptedVars>>

serviceVars == <<schedulerVars, syncVars, mappingVars, migrationVars, mergeVars, socketVars>>

\* what the actions of one component leave alone among the others
schedulerRest == <<syncVars, mappingVars, migrationVars, mergeVars, socketVars>>
syncRest == <<schedulerVars, mappingVars, migrationVars, mergeVars, socketVars>>
mappingRest == <<schedulerVars, syncVars, migrationVars, socketVars>>
migrationRest == <<schedulerVars, syncVars, mappingVars, mergeVars, socketVars>>
bufferRest == <<schedulerVars, syncVars, mappingVars, migrationVars, mergeVars, ackVars,
                tcTokenVars, corruptedVars>>
ackRest == <<schedulerVars, syncVars, mappingVars, migrationVars, mergeVars, bufferVars,
             tcTokenVars, corruptedVars>>
tcTokenRest == <<schedulerVars, syncVars, mappingVars, migrationVars, mergeVars, bufferVars,
                 ackVars, corruptedVars>>
corruptedRest == <<schedulerVars, syncVars, mappingVars, migrationVars, mergeVars, bufferVars,
                   ackVars, tcTokenVars>>

vars == <<now, ret, trackerVars, cleanupVars, pipelineVars, serviceVars>>

Callers == {"c1", "c2"}

Flushers == {"f1", "f2"}

\* a settled keys.get: the data it resolved with, or a rejection
Resolved(data) == [ok |-> TRUE, data |-> data]
Rejected == [ok |-> FALSE, data |-> EmptyMap]

\* the latest step returned nothing: it was a void function, the prefix of an
\* async call up to its await, or the passage of time
Void == [op |-> "void"]

----------------------------------------------------------------------------
(* Session activity tracker *)

\* a flush that would persist only one of the buffered entries
FlushUpdates_OneEntry(cache) ==
    IF DOMAIN cache = {} THEN EmptyMap
    ELSE LET j == CHOOSE x \in DOMAIN cache : TRUE
         IN [k \in {ActivityKey(j)} |->
                [lastActivityAt |-> cache[j], createdAt |-> cache[j]]]

\* const updates = {}; for (const [jid, timestamp] of activityCache.entries()) ...
FlushUpdates(cache) ==
    [k \in {ActivityKey(j) : j \in DOMAIN cache} |->
        [lastActivityAt |-> cache[StripPrefix(k)], createdAt |-> cache[StripPrefix(k)]]]

\* keys.set({ 'session-activity': updates })
StoreSet(store, updates) ==
    [k \in (DOMAIN store) \cup (DOMAIN updates) |->
        IF k \in DOMAIN updates THEN updates[k] ELSE store[k]]

\* a merge in which the persisted timestamp would win over the buffered one
MergeActivities_DiskWins(allData, cache) ==
    LET persisted == {k \in DOMAIN allData :
                        /\ k.prefix = "session-activity:"
                        /\ Truthy(allData[k].lastActivityAt)}
        fromDisk == [j \in {StripPrefix(k) : k \in persisted} |->
                        allData[ActivityKey(j)].lastActivityAt]
    IN [j \in (DOMAIN fromDisk) \cup (DOMAIN cache) |->
            IF j \in DOMAIN fromDisk THEN fromDisk[j] ELSE cache[j]]

\* the loop over Object.entries(allData), then the loop over activityCache.entries()
MergeActivities(allData, cache) ==
    LET persisted == {k \in DOMAIN allData :
                        /\ k.prefix = "session-activity:"
                        /\ Truthy(allData[k].lastActivityAt)}
        fromDisk == [j \in {StripPrefix(k) : k \in persisted} |->
                        allData[ActivityKey(j)].lastActivityAt]
    IN [j \in (DOMAIN fromDisk) \cup (DOMAIN cache) |->
            IF j \in DOMAIN cache THEN cache[j] ELSE fromDisk[j]]

\* a recordActivity that would not look at config.enabled
RecordActivity_WhenDisabled(jid) ==
    /\ stats.totalUpdates < MaxUpdates
    /\ activityCache' = MapSet(activityCache, jid, now)
    /\ isDirty' = TRUE
    /\ stats' = [stats EXCEPT !.totalUpdates = @ + 1,
                              !.cacheSize = Cardinality(DOMAIN activityCache')]
    /\ ret' = Void
    /\ UNCHANGED <<now, activityStore, trackerEnabled, fpc, fupdates, gpc, gread,
                   flushInterval, timers, forigin>>
    /\ UNCHANGED <<cleanupVars, pipelineVars, serviceVars>>

RecordActivity(jid) ==
    /\ stats.totalUpdates < MaxUpdates
    /\ IF ~trackerEnabled
         THEN UNCHANGED <<activityCache, isDirty, stats>>
         ELSE /\ activityCache' = MapSet(activityCache, jid, now)
              /\ isDirty' = TRUE
              /\ stats' = [stats EXCEPT !.totalUpdates = @ + 1,
                                        !.cacheSize = Cardinality(DOMAIN activityCache')]
    /\ ret' = Void
    /\ UNCHANGED <<now, activityStore, trackerEnabled, fpc, fupdates, gpc, gread,
                   flushInterval, timers, forigin>>
    /\ UNCHANGED <<cleanupVars, pipelineVars, serviceVars>>

\* what getLastActivity(jid) finds on disk: metadata?.lastActivityAt
PersistedActivity(store, jid) ==
    IF ActivityKey(jid) \in DOMAIN store THEN store[ActivityKey(jid)].lastActivityAt ELSE -1

\* a getLastActivity that would go to the store even when the buffer has the entry
GetLastActivity_DiskFirst(jid) ==
    /\ IF ~trackerEnabled
         THEN ret' = [op |-> "getLastActivity", jid |-> jid, value |-> -1, reads |-> 0,
                      ok |-> TRUE]
         ELSE \E read \in {Resolved(activityStore), Rejected} :
                ret' = [op |-> "getLastActivity", jid |-> jid, reads |-> 1, ok |-> read.ok,
                        value |-> IF read.ok /\ Truthy(PersistedActivity(read.data, jid))
                                    THEN PersistedActivity(read.data, jid)
                                    ELSE MapGet(activityCache, jid)]
    /\ UNCHANGED <<now, trackerVars>>
    /\ UNCHANGED <<cleanupVars, pipelineVars, serviceVars>>

\* getLastActivity(jid): the cache, then keys.get('session-activity', [key])
GetLastActivity(jid) ==
    /\ IF ~trackerEnabled
         THEN ret' = [op |-> "getLastActivity", jid |-> jid, value |-> -1, reads |-> 0,
                      ok |-> TRUE]
         ELSE IF Truthy(MapGet(activityCache, jid))
         THEN ret' = [op |-> "getLastActivity", jid |-> jid,
                      value |-> activityCache[jid], reads |-> 0, ok |-> TRUE]
         ELSE \E read \in {Resolved(activityStore), Rejected} :
                ret' = [op |-> "getLastActivity", jid |-> jid, reads |-> 1, ok |-> read.ok,
                        value |-> IF read.ok THEN PersistedActivity(read.data, jid) ELSE -1]
    /\ UNCHANGED <<now, trackerVars>>
    /\ UNCHANGED <<cleanupVars, pipelineVars, serviceVars>>

\* a getAllActivities that would fall back to the buffer when the read fails
GetAllResult_CacheOnError(read, cache) ==
    IF ~trackerEnabled THEN EmptyMap
    ELSE IF read.ok THEN MergeActivities(read.data, cache)
    ELSE cache

\* what getAllActivities() resolves with once its keys.get has settled:
\* the merged Map, or the empty Map left by the catch block
GetAllResult(read, cache) ==
    IF ~trackerEnabled THEN EmptyMap
    ELSE IF read.ok THEN MergeActivities(read.data, cache)
    ELSE EmptyMap

\* getAllActivities(), up to `await keys.get('session-activity', [])`
GetAllCall ==
    /\ gpc = "idle"
    /\ IF ~trackerEnabled
         THEN /\ ret' = [op |-> "getAllActivities", ok |-> TRUE, read |-> EmptyMap,
                         value |-> EmptyMap]
              /\ UNCHANGED <<gpc, gread>>
         ELSE /\ gpc' = "read"
              /\ gread' \in {Resolved(activityStore), Rejected}
              /\ ret' = Void
    /\ UNCHANGED <<now, activityStore, trackerEnabled, activityCache, isDirty, stats,
                   fpc, fupdates, flushInterval, timers, forigin>>
    /\ UNCHANGED <<cleanupVars, pipelineVars, serviceVars>>

\* getAllActivities() after the await: the two loops, or the catch block
GetAllResume ==
    /\ gpc = "read"
    /\ gpc' = "idle"
    /\ gread' = Rejected
    /\ ret' = [op |-> "getAllActivities", ok |-> gread.ok, read |-> gread.data,
               value |-> GetAllResult(gread, activityCache)]
    /\ UNCHANGED <<now, activityStore, trackerEnabled, activityCache, isDirty, stats,
                   fpc, fupdates, flushInterval, timers, forigin>>
    /\ UNCHANGED <<cleanupVars, pipelineVars, serviceVars>>

\* the early return of flush()
FlushSkips == ~trackerEnabled \/ ~isDirty \/ Cardinality(DOMAIN activityCache) = 0

\* who calls flush(): the application, start(), the interval timer, stop()
Origins == {"call", "start", "timer", "stop"}

\* flush() called by origin, up to `await keys.transaction(...)`; a call that
\* takes the early return gives control back at once
FlushEnter(f, origin) ==
    /\ fpc[f] = "idle"
    /\ IF FlushSkips
         THEN UNCHANGED <<fpc, fupdates, forigin>>
         ELSE /\ fpc' = [fpc EXCEPT ![f] = "txn"]
              /\ fupdates' = [fupdates EXCEPT ![f] = FlushUpdates(activityCache)]
              /\ forigin' = [forigin EXCEPT ![f] = origin]
    /\ UNCHANGED <<now, activityStore, trackerEnabled, activityCache, isDirty, stats,
                   gpc, gread>>
    /\ UNCHANGED <<cleanupVars, pipelineVars, serviceVars>>

\* what a flush() call that took the early return hands back
FlushSkipped(f, origin) ==
    [op |-> "flush", by |-> f, origin |-> origin, outcome |-> "skipped", txns |-> 0,
     written |-> EmptyMap]

\* flush() called by the application, up to `await keys.transaction(...)`
FlushCall(f) ==
    /\ FlushEnter(f, "call")
    /\ ret' = IF FlushSkips THEN FlushSkipped(f, "call") ELSE Void
    /\ UNCHANGED <<flushInterval, timers>>

\* the transaction commits and flush() continues after the await
FlushCommitted(f) ==
    /\ fpc[f] = "txn"
    /\ activityStore' = StoreSet(activityStore, fupdates[f])
    /\ isDirty' = FALSE
    /\ stats' = [stats EXCEPT !.totalFlushes = @ + 1,
                              !.lastFlushAt = now,
                              !.cacheSize = 0]
    /\ activityCache' = EmptyMap
    /\ fpc' = [fpc EXCEPT ![f] = "idle"]
    /\ fupdates' = [fupdates EXCEPT ![f] = EmptyMap]
    /\ forigin' = [forigin EXCEPT ![f] = "call"]
    /\ ret' = [op |-> "flush", by |-> f, origin |-> forigin[f], outcome |-> "ok",
               txns |-> 1, written |-> fupdates[f]]
    /\ UNCHANGED <<now, trackerEnabled, gpc, gread, flushInterval, timers>>
    /\ UNCHANGED <<cleanupVars, pipelineVars, serviceVars>>

\* a failed flush that would drop the buffer as a successful one does
FlushFailed_Clears(f) ==
    /\ fpc[f] = "txn"
    /\ fpc' = [fpc EXCEPT ![f] = "idle"]
    /\ fupdates' = [fupdates EXCEPT ![f] = EmptyMap]
    /\ isDirty' = FALSE
    /\ activityCache' = EmptyMap
    /\ stats' = [stats EXCEPT !.cacheSize = 0]
    /\ forigin' = [forigin EXCEPT ![f] = "call"]
    /\ ret' = [op |-> "flush", by |-> f, origin |-> forigin[f], outcome |-> "failed",
               txns |-> 1, written |-> EmptyMap]
    /\ UNCHANGED <<now, activityStore, trackerEnabled, gpc, gread, flushInterval, timers>>
    /\ UNCHANGED <<cleanupVars, pipelineVars, serviceVars>>

\* the transaction rejects: nothing is written, the catch block only logs
FlushFailed(f) ==
    /\ fpc[f] = "txn"
    /\ fpc' = [fpc EXCEPT ![f] = "idle"]
    /\ fupdates' = [fupdates EXCEPT ![f] = EmptyMap]
    /\ forigin' = [forigin EXCEPT ![f] = "call"]
    /\ ret' = [op |-> "flush", by |-> f, origin |-> forigin[f], outcome |-> "failed",
               txns |-> 1, written |-> EmptyMap]
    /\ UNCHANGED <<now, activityStore, trackerEnabled, activityCache, isDirty, stats,
                   gpc, gread, flushInterval, timers>>
    /\ UNCHANGED <<cleanupVars, pipelineVars, serviceVars>>

\* what start() hands back: the flush() calls it made and the timers it set
StartReturns(flushCalls, armed) ==
    [op |-> "start", flushCalls |-> flushCalls, armed |-> armed]

\* a start() that would not look at flushInterval
Start_NoGuard(f) ==
    IF ~trackerEnabled
      THEN /\ ret' = StartReturns(0, 0)
           /\ UNCHANGED <<now, trackerVars>>
           /\ UNCHANGED <<cleanupVars, pipelineVars, serviceVars>>
      ELSE /\ FlushEnter(f, "start")
           /\ flushInterval' = TRUE
           /\ timers' = timers + 1
           /\ ret' = StartReturns(1, 1)

\* start(): the two guards, the immediate flush() up to its await, setInterval
Start(f) ==
    IF ~trackerEnabled \/ flushInterval
      THEN /\ ret' = StartReturns(0, 0)
           /\ UNCHANGED <<now, trackerVars>>
           /\ UNCHANGED <<cleanupVars, pipelineVars, serviceVars>>
      ELSE /\ FlushEnter(f, "start")
           /\ flushInterval' = TRUE
           /\ timers' = timers + 1
           /\ ret' = StartReturns(1, 1)

\* the interval elapses: the callback calls flush()
TimerFire(f) ==
    /\ timers > 0
    /\ FlushEnter(f, "timer")
    /\ ret' = IF FlushSkips THEN FlushSkipped(f, "timer") ELSE Void
    /\ UNCHANGED <<flushInterval, timers>>

\* a stop() that would flush without cancelling the timer
Stop_KeepsTimer(f) ==
    /\ FlushEnter(f, "stop")
    /\ ret' = IF FlushSkips THEN FlushSkipped(f, "stop") ELSE Void
    /\ UNCHANGED <<flushInterval, timers>>

\* stop(): clearInterval, then `await flush()` up to the await inside flush();
\* stop() returns when that flush() does
Stop(f) ==
    /\ flushInterval' = FALSE
    /\ timers' = IF flushInterval THEN timers - 1 ELSE timers
    /\ FlushEnter(f, "stop")
    /\ ret' = IF FlushSkips THEN FlushSkipped(f, "stop") ELSE Void

\* time passes
Tick ==
    /\ now < MaxClock
    /\ now' = now + 1
    /\ ret' = Void
    /\ UNCHANGED trackerVars
    /\ UNCHANGED <<cleanupVars, pipelineVars, serviceVars>>

----------------------------------------------------------------------------
(* Session cleanup *)

config == [lidOrphanHours |-> CfgLidOrphanHours,
           secondaryDeviceInactiveDays |-> CfgSecondaryDeviceInactiveDays,
           primaryDeviceInactiveDays |-> CfgPrimaryDeviceInactiveDays]

ZeroStats == [totalScanned |-> 0, secondaryDevicesDeleted |-> 0, primaryDevicesDeleted |-> 0,
              lidOrphansDeleted |-> 0, totalDeleted |-> 0, durationMs |-> 0, errors |-> 0]

\* a rejected keys.get('session', [])
RejectedKeys == [ok |-> FALSE, data |-> {}]

IdleCall == [pc |-> "idle", keysRead |-> RejectedKeys, read |-> Rejected, stats |-> ZeroStats,
             keys |-> {}, pending |-> {},
             activity |-> EmptyMap, reasons |-> EmptyMap, start |-> 0]

\* parseSessionMetadata(signalAddr), given whether getPNForLID(jid) found a phone number;
\* hasLIDMapping is "undefined" for a phone-number address
parseSessionMetadata(signalAddr, pnFound) ==
    LET isLID == signalAddr.domain = 2 \/ signalAddr.domain = 6
        isPrimary == signalAddr.device = 0
    IN [jid |-> IF isLID THEN LidJid(signalAddr.user)
                ELSE PnJid(signalAddr.user, signalAddr.device),
        isLID |-> isLID,
        isPrimary |-> isPrimary,
        hasLIDMapping |-> IF isLID THEN (IF pnFound THEN "true" ELSE "false") ELSE "undefined",
        lastActivityMs |-> -1]

\* shouldCleanupSession with rule 1 applied to every LID record, mapped or not
shouldCleanupSession_AnyLid(metadata, t) ==
    IF metadata.isLID
    THEN IF Truthy(metadata.lastActivityMs)
         THEN IF t - metadata.lastActivityMs > config.lidOrphanHours * HOUR_MS
              THEN [cleanup |-> TRUE, reason |-> "LID orphan inactive"]
              ELSE [cleanup |-> FALSE, reason |-> "LID orphan but not inactive long enough"]
         ELSE [cleanup |-> TRUE, reason |-> "LID orphan, no activity tracked"]
    ELSE IF ~metadata.isPrimary /\ Truthy(metadata.lastActivityMs)
    THEN IF t - metadata.lastActivityMs > config.secondaryDeviceInactiveDays * DAY_MS
         THEN [cleanup |-> TRUE, reason |-> "Secondary device inactive"]
         ELSE [cleanup |-> FALSE, reason |-> "Secondary device active"]
    ELSE IF metadata.isPrimary /\ Truthy(metadata.lastActivityMs)
    THEN IF t - metadata.lastActivityMs > config.primaryDeviceInactiveDays * DAY_MS
         THEN [cleanup |-> TRUE, reason |-> "Primary device inactive"]
         ELSE [cleanup |-> FALSE, reason |-> "Primary device active"]
    ELSE [cleanup |-> FALSE, reason |-> "No activity tracked yet"]

\* shouldCleanupSession with the same default for every record without activity:
\* an untracked orphan is kept like an untracked addressable device
shouldCleanupSession_NoOrphanDefault(metadata, t) ==
    IF metadata.isLID /\ metadata.hasLIDMapping = "false" /\ Truthy(metadata.lastActivityMs)
    THEN IF t - metadata.lastActivityMs > config.lidOrphanHours * HOUR_MS
         THEN [cleanup |-> TRUE, reason |-> "LID orphan inactive"]
         ELSE [cleanup |-> FALSE, reason |-> "LID orphan but not inactive long enough"]
    ELSE IF ~metadata.isPrimary /\ Truthy(metadata.lastActivityMs)
    THEN IF t - metadata.lastActivityMs > config.secondaryDeviceInactiveDays * DAY_MS
         THEN [cleanup |-> TRUE, reason |-> "Secondary device inactive"]
         ELSE [cleanup |-> FALSE, reason |-> "Secondary device active"]
    ELSE IF metadata.isPrimary /\ Truthy(metadata.lastActivityMs)
    THEN IF t - metadata.lastActivityMs > config.primaryDeviceInactiveDays * DAY_MS
         THEN [cleanup |-> TRUE, reason |-> "Primary device inactive"]
         ELSE [cleanup |-> FALSE, reason |-> "Primary device active"]
    ELSE [cleanup |-> FALSE, reason |-> "No activity tracked yet"]

\* shouldCleanupSession comparing with >= instead of >
shouldCleanupSession_AtThreshold(metadata, t) ==
    IF metadata.isLID /\ metadata.hasLIDMapping = "false"
    THEN IF Truthy(metadata.lastActivityMs)
         THEN IF t - metadata.lastActivityMs >= config.lidOrphanHours * HOUR_MS
              THEN [cleanup |-> TRUE, reason |-> "LID orphan inactive"]
              ELSE [cleanup |-> FALSE, reason |-> "LID orphan but not inactive long enough"]
         ELSE [cleanup |-> TRUE, reason |-> "LID orphan, no activity tracked"]
    ELSE IF ~metadata.isPrimary /\ Truthy(metadata.lastActivityMs)
    THEN IF t - metadata.lastActivityMs >= config.secondaryDeviceInactiveDays * DAY_MS
         THEN [cleanup |-> TRUE, reason |-> "Secondary device inactive"]
         ELSE [cleanup |-> FALSE, reason |-> "Secondary device active"]
    ELSE IF metadata.isPrimary /\ Truthy(metadata.lastActivityMs)
    THEN IF t - metadata.lastActivityMs >= config.primaryDeviceInactiveDays * DAY_MS
         THEN [cleanup |-> TRUE, reason |-> "Primary device inactive"]
         ELSE [cleanup |-> FALSE, reason |-> "Primary device active"]
    ELSE [cleanup |-> FALSE, reason |-> "No activity tracked yet"]

shouldCleanupSession(metadata, t) ==
    IF metadata.isLID /\ metadata.hasLIDMapping = "false"
    THEN IF Truthy(metadata.lastActivityMs)
         THEN IF t - metadata.lastActivityMs > config.lidOrphanHours * HOUR_MS
              THEN [cleanup |-> TRUE, reason |-> "LID orphan inactive"]
              ELSE [cleanup |-> FALSE, reason |-> "LID orphan but not inactive long enough"]
         ELSE [cleanup |-> TRUE, reason |-> "LID orphan, no activity tracked"]
    ELSE IF ~metadata.isPrimary /\ Truthy(metadata.lastActivityMs)
    THEN IF t - metadata.lastActivityMs > config.secondaryDeviceInactiveDays * DAY_MS
         THEN [cleanup |-> TRUE, reason |-> "Secondary device inactive"]
         ELSE [cleanup |-> FALSE, reason |-> "Secondary device active"]
    ELSE IF metadata.isPrimary /\ Truthy(metadata.lastActivityMs)
    THEN IF t - metadata.lastActivityMs > config.primaryDeviceInactiveDays * DAY_MS
         THEN [cleanup |-> TRUE, reason |-> "Primary device inactive"]
         ELSE [cleanup |-> FALSE, reason |-> "Primary device active"]
    ELSE [cleanup |-> FALSE, reason |-> "No activity tracked yet"]

\* the statistics update of runCleanup for a session marked for deletion
CountDeletion(st, metadata) ==
    IF metadata.isLID /\ metadata.hasLIDMapping # "true"
    THEN [st EXCEPT !.lidOrphansDeleted = @ + 1]
    ELSE IF ~metadata.isPrimary
    THEN [st EXCEPT !.secondaryDevicesDeleted = @ + 1]
    ELSE [st EXCEPT !.primaryDevicesDeleted = @ + 1]

\* runCleanup() returns: lastCleanupAt, durationMs, the finally block
\* (reads, txns, sets: the keys.get('session'), keys.transaction and keys.set
\* calls the run made; batch: the keys it passed to keys.set)
CleanupReturns(c, st, txns, sets, batch, committed) ==
    /\ ret' = [op |-> "runCleanup", by |-> c, guarded |-> FALSE,
               stats |-> [st EXCEPT !.durationMs = now - call[c].start],
               reads |-> 1, txns |-> txns, sets |-> sets, batch |-> batch,
               committed |-> committed]
    /\ lastCleanupAt' = now
    /\ cleanupRunning' = FALSE
    /\ call' = [call EXCEPT ![c] = IdleCall]

\* runCleanup without its re-entrancy guard
CleanupSkips_NoGuard == ~cleanupEnabled

\* the two early returns of runCleanup()
CleanupSkips == ~cleanupEnabled \/ cleanupRunning

\* what a runCleanup() stopped by one of its early returns gives back
CleanupSkipped(c) ==
    [op |-> "runCleanup", by |-> c, guarded |-> TRUE,
     stats |-> ZeroStats, reads |-> 0, txns |-> 0, sets |-> 0,
     batch |-> {}, committed |-> FALSE]

\* runCleanup() is entered by call c: the early returns, or cleanupRunning is
\* set and the session keys are requested
CleanupEnter(c) ==
    /\ call[c].pc = "idle"
    /\ IF CleanupSkips
         THEN UNCHANGED <<cleanupRunning, call>>
         ELSE /\ cleanupRunning' = TRUE
              /\ \E read \in {Resolved(sessionStore), RejectedKeys} :
                    call' = [call EXCEPT ![c] = [IdleCall EXCEPT !.pc = "keys",
                                                                 !.keysRead = read,
                                                                 !.start = now]]

\* runCleanup(), up to `await getAllSessionKeys()`
CleanupCall(c) ==
    /\ CleanupEnter(c)
    /\ ret' = IF CleanupSkips THEN CleanupSkipped(c) ELSE Void
    /\ UNCHANGED <<now, trackerVars, pipelineVars, serviceVars, sessionStore, lidMapped, cleanupEnabled, trackerPresent,
                   lastCleanupAt>>

\* the session keys arrive (an empty list when the read failed); the activity
\* timestamps are requested, or taken as an empty Map without a tracker
CleanupKeysResume(c) ==
    /\ call[c].pc = "keys"
    /\ LET sessionKeys == IF call[c].keysRead.ok THEN call[c].keysRead.data ELSE {}
           st == [call[c].stats EXCEPT !.totalScanned = Cardinality(sessionKeys)]
       IN IF trackerPresent
          THEN /\ \E read \in {Resolved(activityStore), Rejected} :
                    call' = [call EXCEPT ![c].pc = "activities", ![c].read = read,
                                         ![c].keysRead = RejectedKeys,
                                         ![c].stats = st, ![c].keys = sessionKeys,
                                         ![c].pending = sessionKeys]
               /\ ret' = Void
               /\ UNCHANGED <<cleanupRunning, lastCleanupAt>>
          ELSE IF sessionKeys = {}
          THEN CleanupReturns(c, st, 0, 0, {}, FALSE)
          ELSE /\ call' = [call EXCEPT ![c].pc = "classify", ![c].keysRead = RejectedKeys,
                                       ![c].stats = st, ![c].keys = sessionKeys,
                                         ![c].pending = sessionKeys]
               /\ ret' = Void
               /\ UNCHANGED <<cleanupRunning, lastCleanupAt>>
    /\ UNCHANGED <<now, trackerVars, pipelineVars, serviceVars, sessionStore, lidMapped, cleanupEnabled, trackerPresent>>

\* getAllActivities() resolves; the loop over the session keys starts
CleanupActivitiesResume(c) ==
    /\ call[c].pc = "activities"
    /\ IF call[c].pending = {}
       THEN CleanupReturns(c, call[c].stats, 0, 0, {}, FALSE)
       ELSE /\ call' = [call EXCEPT ![c].pc = "classify", ![c].read = Rejected,
                                    ![c].activity = GetAllResult(call[c].read, activityCache)]
            /\ ret' = Void
            /\ UNCHANGED <<cleanupRunning, lastCleanupAt>>
    /\ UNCHANGED <<now, trackerVars, pipelineVars, serviceVars, sessionStore, lidMapped, cleanupEnabled, trackerPresent>>

\* one iteration of the loop; after the last one the deletion transaction is
\* started, or runCleanup returns when nothing was marked
CleanupClassify(c, signalAddr, lookupThrows) ==
    /\ call[c].pc = "classify"
    /\ signalAddr \in call[c].pending
    /\ lookupThrows => (signalAddr.domain = 2 \/ signalAddr.domain = 6)
    /\ LET parsed == parseSessionMetadata(signalAddr, signalAddr.user \in lidMapped)
           metadata == [parsed EXCEPT !.lastActivityMs = MapGet(call[c].activity, parsed.jid)]
           decision == shouldCleanupSession(metadata, now)
           st == IF lookupThrows THEN [call[c].stats EXCEPT !.errors = @ + 1]
                 ELSE IF decision.cleanup THEN CountDeletion(call[c].stats, metadata)
                 ELSE call[c].stats
           del == IF ~lookupThrows /\ decision.cleanup
                  THEN MapSet(call[c].reasons, signalAddr, decision.reason)
                  ELSE call[c].reasons
           rest == call[c].pending \ {signalAddr}
       IN IF rest = {} /\ DOMAIN del = {}
          THEN CleanupReturns(c, st, 0, 0, {}, FALSE)
          ELSE /\ call' = [call EXCEPT ![c].pc = IF rest = {} THEN "deleting" ELSE "classify",
                                       ![c].stats = st, ![c].reasons = del,
                                       ![c].pending = rest]
               /\ ret' = Void
               /\ UNCHANGED <<cleanupRunning, lastCleanupAt>>
    /\ UNCHANGED <<now, trackerVars, pipelineVars, serviceVars, sessionStore, lidMapped, cleanupEnabled, trackerPresent>>

\* keys.set({ session: sessionUpdates }) with every marked key set to null
DeleteSessions(store, sessionsToDelete) == store \ sessionsToDelete

\* the deletion transaction commits
CleanupDeleteCommitted(c) ==
    /\ call[c].pc = "deleting"
    /\ sessionStore' = DeleteSessions(sessionStore, DOMAIN call[c].reasons)
    /\ CleanupReturns(c, [call[c].stats EXCEPT
                              !.totalDeleted = Cardinality(DOMAIN call[c].reasons)],
                      1, 1, DOMAIN call[c].reasons, TRUE)
    /\ UNCHANGED <<now, trackerVars, pipelineVars, serviceVars, lidMapped, cleanupEnabled, trackerPresent>>

\* a deletion that is not atomic: the rejected transaction has deleted one key
CleanupDeleteFailed_Partial(c) ==
    /\ call[c].pc = "deleting"
    /\ sessionStore' = sessionStore \ {CHOOSE a \in DOMAIN call[c].reasons : TRUE}
    /\ CleanupReturns(c, [call[c].stats EXCEPT !.errors = @ + 1], 1, 1,
                      DOMAIN call[c].reasons, FALSE)
    /\ UNCHANGED <<now, trackerVars, pipelineVars, serviceVars, lidMapped, cleanupEnabled, trackerPresent>>

\* the deletion transaction rejects, before or after its work called keys.set:
\* nothing is deleted
CleanupDeleteFailed(c) ==
    /\ call[c].pc = "deleting"
    /\ \E sets \in {0, 1} :
          CleanupReturns(c, [call[c].stats EXCEPT !.errors = @ + 1], 1, sets,
                         IF sets = 1 THEN DOMAIN call[c].reasons ELSE {}, FALSE)
    /\ UNCHANGED <<now, trackerVars, pipelineVars, serviceVars, sessionStore, lidMapped, cleanupEnabled, trackerPresent>>

\* the mapping store learns the phone number of a LID user
LearnMapping(user) ==
    /\ user \notin lidMapped
    /\ lidMapped' = lidMapped \cup {user}
    /\ ret' = Void
    /\ UNCHANGED <<now, trackerVars, pipelineVars, serviceVars, sessionStore, cleanupEnabled, trackerPresent,
                   cleanupRunning, lastCleanupAt, call>>

----------------------------------------------------------------------------
(* Decryption pipeline: decryptMessageNode(...).decrypt() *)

\* error messages, as sequences of words
NoSessionRecord == <<"No", "session", "record">>
SessionErrorNoSessionRecord == <<"SessionError:", "No", "session", "record">>
BAD_MAC_ERROR_TEXT == <<"Bad", "MAC">>
MessageCounterError == <<"MessageCounterError">>
MISSING_KEYS_ERROR_TEXT == <<"Key", "used", "already", "or", "never", "filled">>
NO_MESSAGE_FOUND_ERROR_TEXT == <<"Message", "absent", "from", "node">>
InvalidPreKeyId == <<"Invalid", "PreKey", "ID">>
UnknownE2eType == <<"Unknown", "e2e", "type:", "other">>
DecodeError == <<"index", "out", "of", "range">>
NoError == <<>>

\* the errors the cipher (repository.decryptMessage / decryptGroupMessage) rejects with
CipherErrors == {NoSessionRecord, SessionErrorNoSessionRecord, BAD_MAC_ERROR_TEXT,
                 MessageCounterError, MISSING_KEYS_ERROR_TEXT, InvalidPreKeyId}

\* DECRYPTION_RETRY_CONFIG
sessionRecordErrors == {NoSessionRecord, SessionErrorNoSessionRecord}
corruptedSessionErrors == {BAD_MAC_ERROR_TEXT, MessageCounterError, MISSING_KEYS_ERROR_TEXT}

\* errorMsg.includes(pattern)
Includes(msg, pattern) ==
    \E i \in 0..(Len(msg) - Len(pattern)) : SubSeq(msg, i + 1, i + Len(pattern)) = pattern

isSessionRecordError(msg) == \E p \in sessionRecordErrors : Includes(msg, p)

isCorruptedSessionError(msg) == \E p \in corruptedSessionErrors : Includes(msg, p)

\* a shouldRetry that would retry a corrupted session like a missing one
shouldRetry_AlsoCorrupted(msg, attempt) ==
    IF isSessionRecordError(msg) \/ isCorruptedSessionError(msg)
      THEN attempt < SESSION_RECORD_RETRY_BELOW
      ELSE attempt < UNKNOWN_ERROR_RETRY_BELOW

\* a shouldRetry that would never ask for another attempt
shouldRetry_NeverRetries(msg, attempt) == FALSE

\* DECRYPTION_RETRY_OPTIONS.shouldRetry(error, attempt)
shouldRetry(msg, attempt) ==
    IF isSessionRecordError(msg) THEN attempt < SESSION_RECORD_RETRY_BELOW
    ELSE IF isCorruptedSessionError(msg) THEN FALSE
    ELSE attempt < UNKNOWN_ERROR_RETRY_BELOW

\* retry(operation, options) after the attempt-th call of operation has
\* rejected with msg: TRUE when operation is called again
RetryAgain(msg, attempt) == attempt < MAX_ATTEMPTS /\ shouldRetry(msg, attempt)

isLidUser(jid) == jid.server = "lid"
isHostedLidUser(jid) == jid.server = "hosted.lid"
isPnUser(jid) == jid.server = "s.whatsapp.net"

\* no jid: undefined or null
NoJid == [user |-> "", device |-> 0, server |-> ""]

\* the authors of the stanzas decrypt() is given
Senders == {PnJid("u1", 0), PnJid("u1", 7),
            [user |-> "u1", device |-> 0, server |-> "lid"],
            [user |-> "u1", device |-> 0, server |-> "hosted.lid"]}

\* the addressing attributes of a stanza: addressing_mode ("" when absent),
\* and whether it carries a *_lid and a *_pn attribute for its sender
StanzaAttrs == [addressing_mode : {"", "lid", "pn"}, alt_lid : BOOLEAN, alt_pn : BOOLEAN]

\* extractAddressingContext(stanza).senderAlt
extractAddressingContext(attrs, sender) ==
    LET addressingMode == IF attrs.addressing_mode # "" THEN attrs.addressing_mode
                          ELSE IF sender.server \in {"lid", "hosted.lid"} THEN "lid"
                          ELSE "pn"
    IN IF addressingMode = "lid"
         THEN (IF attrs.alt_pn THEN PnJid(sender.user, 0) ELSE NoJid)
         ELSE (IF attrs.alt_lid THEN LidJid(sender.user) ELSE NoJid)

\* getDecryptionJid consults the mapping store for this sender
NeedsLookup(sender) == ~(isLidUser(sender) \/ isHostedLidUser(sender))

\* repository.lidMapping.getLIDForPN(pn), when it answers
getLIDForPN(pn) == IF pn.user \in lidMapped THEN [pn EXCEPT !.server = "lid"] ELSE NoJid

\* a getDecryptionJid that would look every sender up, a LID too
getDecryptionJid_AlwaysLooksUp(sender, mapped) ==
    [jid |-> IF mapped # NoJid THEN mapped ELSE sender, lookups |-> 1]

\* getDecryptionJid(sender, repository), mapped being what getLIDForPN answers
getDecryptionJid(sender, mapped) ==
    IF ~NeedsLookup(sender) THEN [jid |-> sender, lookups |-> 0]
    ELSE [jid |-> IF mapped # NoJid THEN mapped ELSE sender, lookups |-> 1]

\* a condition that would not look at what the mapping store already knows
StoresMapping_IgnoresKnown(senderAlt, sender, decryptionJid) ==
    senderAlt # NoJid /\ isLidUser(senderAlt) /\ isPnUser(sender)

\* the condition under which storeMappingFromEnvelope stores and migrates
StoresMapping(senderAlt, sender, decryptionJid) ==
    senderAlt # NoJid /\ isLidUser(senderAlt) /\ isPnUser(sender) /\ decryptionJid = sender

\* a cleanup that would delete the session of the given identity only
jidsToDelete_OnlyGiven(jid) == <<jid>>

\* cleanupCorruptedSession(jid): the list handed to repository.deleteSession
jidsToDelete(jid) ==
    LET domain == IF jid.server \in {"lid", "hosted.lid"}
                    THEN (IF jid.server \in {"hosted", "hosted.lid"} THEN "hosted.lid" ELSE "lid")
                    ELSE (IF jid.server \in {"hosted", "hosted.lid"} THEN "hosted"
                          ELSE "s.whatsapp.net")
        range == [i \in 1..(LAST_SECONDARY_DEVICE + 1) |->
                    [user |-> jid.user, device |-> i - 1, server |-> domain]]
    IN IF jid.device > LAST_SECONDARY_DEVICE
         THEN Append(range, [user |-> jid.user, device |-> jid.device, server |-> domain])
         ELSE range

\* the children of a stanza that decrypt() tells apart
NoNode == [tag |-> "", type |-> "", bytes |-> FALSE, wellFormed |-> TRUE]

Children ==
    {[tag |-> "enc", type |-> t, bytes |-> TRUE, wellFormed |-> TRUE] :
        t \in {"pkmsg", "msg", "skmsg", "other"}}
    \cup {[tag |-> "enc", type |-> "pkmsg", bytes |-> FALSE, wellFormed |-> TRUE],
          [tag |-> "plaintext", type |-> "", bytes |-> TRUE, wellFormed |-> TRUE],
          [tag |-> "unavailable", type |-> "view_once", bytes |-> FALSE, wellFormed |-> TRUE],
          [tag |-> "verified_name", type |-> "", bytes |-> TRUE, wellFormed |-> TRUE],
          [tag |-> "verified_name", type |-> "", bytes |-> TRUE, wellFormed |-> FALSE]}

\* no decrypt() call
DecIdle ==
    [pc |-> "idle", author |-> NoJid,
     attrs |-> [addressing_mode |-> "", alt_lid |-> FALSE, alt_pn |-> FALSE],
     autoCleanCorrupted |-> FALSE, i |-> 0,
     node |-> NoNode, decryptionJid |-> NoJid, lookups |-> 0, stored |-> "no",
     migrated |-> "no", attempt |-> 0, err |-> NoError, deleted |-> <<>>,
     decryptables |-> 0, isViewOnce |-> FALSE,
     stubType |-> "", stubParams |-> <<>>, message |-> FALSE]

\* decrypt() has rejected
DecryptThrew == [op |-> "decrypt", outcome |-> "threw"]

\* the loop moves on to the next child: the locals of the body are gone
NodeDone(d) ==
    [d EXCEPT !.pc = "loop", !.node = NoNode, !.decryptionJid = NoJid, !.lookups = 0,
              !.stored = "no", !.migrated = "no", !.attempt = 0, !.err = NoError,
              !.deleted = <<>>]

\* what the body of the loop did for one decryptable child
NodeReport(d, result, cleanup) ==
    [op |-> "decryptNode", node |-> d.node, jid |-> d.decryptionJid, lookups |-> d.lookups,
     stored |-> d.stored, migrated |-> d.migrated, attempts |-> d.attempt, err |-> d.err,
     deleted |-> d.deleted, cleanup |-> cleanup, result |-> result]

\* the end of the catch block: the stub is set and the loop moves on
SetStub(d, cleanup) ==
    /\ dec' = NodeDone([d EXCEPT !.stubType = "CIPHERTEXT", !.stubParams = <<d.err>>])
    /\ ret' = NodeReport(d, "stub", cleanup)

\* the decryption identity is known: storeMappingFromEnvelope up to its first
\* await, or straight to the try block
AfterResolve(d, resolved) ==
    LET senderAlt == extractAddressingContext(d.attrs, d.author)
        r == [d EXCEPT !.decryptionJid = resolved.jid, !.lookups = resolved.lookups]
    IN IF d.node.tag # "plaintext" /\ StoresMapping(senderAlt, d.author, resolved.jid)
         THEN [r EXCEPT !.pc = "storing"]
         ELSE [r EXCEPT !.pc = "cipher"]

\* everything but dec, ret and the mapping store is left alone
DecryptFrame == UNCHANGED <<now, trackerVars, serviceVars, sessionStore, cleanupEnabled, trackerPresent,
                            cleanupRunning, lastCleanupAt, call>>

\* the loop takes the next child of the stanza, up to the first await of its body
DecryptNextChild(child) ==
    /\ dec.pc = "loop"
    /\ dec.i < MaxNodes
    /\ LET d == [dec EXCEPT !.i = @ + 1]
       IN IF child.tag = "verified_name"
            THEN IF child.wellFormed
                   THEN dec' = d /\ ret' = Void
                   ELSE dec' = [d EXCEPT !.pc = "thrown"] /\ ret' = DecryptThrew
          ELSE IF child.tag = "unavailable"
            THEN dec' = [d EXCEPT !.isViewOnce = TRUE] /\ ret' = Void
          ELSE IF ~child.bytes
            THEN dec' = d /\ ret' = Void
          ELSE LET n == [d EXCEPT !.decryptables = @ + 1, !.node = child]
               IN /\ dec' = IF NeedsLookup(n.author)
                              THEN [n EXCEPT !.pc = "lookup"]
                              ELSE AfterResolve(n, getDecryptionJid(n.author, NoJid))
                  /\ ret' = Void
    /\ UNCHANGED lidMapped
    /\ DecryptFrame

\* getLIDForPN settles: getDecryptionJid returns, or decrypt() rejects with it
DecryptLookupSettles(answers) ==
    /\ dec.pc = "lookup"
    /\ IF answers
         THEN /\ dec' = AfterResolve(dec, getDecryptionJid(dec.author, getLIDForPN(dec.author)))
              /\ ret' = Void
         ELSE /\ dec' = [dec EXCEPT !.pc = "thrown"]
              /\ ret' = DecryptThrew
    /\ UNCHANGED lidMapped
    /\ DecryptFrame

\* storeLIDPNMappings settles: migrateSession is called, or the catch block logs
DecryptStoreSettles(ok) ==
    /\ dec.pc = "storing"
    /\ IF ok
         THEN /\ lidMapped' = lidMapped \cup {dec.author.user}
              /\ dec' = [dec EXCEPT !.pc = "migrating", !.stored = "ok"]
         ELSE /\ UNCHANGED lidMapped
              /\ dec' = [dec EXCEPT !.pc = "cipher", !.stored = "threw"]
    /\ ret' = Void
    /\ DecryptFrame

\* migrateSession settles, either way the try block is next
DecryptMigrateSettles(ok) ==
    /\ dec.pc = "migrating"
    /\ dec' = [dec EXCEPT !.pc = "cipher", !.migrated = IF ok THEN "ok" ELSE "threw"]
    /\ ret' = Void
    /\ UNCHANGED lidMapped
    /\ DecryptFrame

\* the catch block of the loop body, d.err being the original error
Catch(d) ==
    IF isCorruptedSessionError(d.err) /\ d.autoCleanCorrupted
      THEN /\ dec' = [d EXCEPT !.pc = "cleaning", !.deleted = jidsToDelete(d.decryptionJid)]
           /\ ret' = Void
      ELSE SetStub(d, "none")

\* proto.Message.decode of the decrypted (or plain) bytes and the rest of the try block
Decode(d, decodes) ==
    IF decodes
      THEN /\ dec' = NodeDone([d EXCEPT !.message = TRUE])
           /\ ret' = NodeReport(d, "ok", "none")
      ELSE Catch([d EXCEPT !.err = DecodeError])

\* the try block: one call of the cipher under retry(), which either resolves,
\* is called again, or makes retry() reject into the catch block
DecryptCipher(outcome, decodes) ==
    /\ dec.pc = "cipher"
    /\ LET e2eType == IF dec.node.tag = "plaintext" THEN "plaintext" ELSE dec.node.type
           d == [dec EXCEPT !.attempt = @ + 1]
       IN IF e2eType \in {"skmsg", "pkmsg", "msg"}
            THEN IF outcome = NoError THEN Decode(d, decodes)
                 ELSE /\ decodes
                      /\ IF RetryAgain(outcome, d.attempt)
                           THEN dec' = [d EXCEPT !.err = outcome] /\ ret' = Void
                           ELSE Catch([d EXCEPT !.err = outcome])
          ELSE /\ outcome = NoError
               /\ IF e2eType = "plaintext" THEN Decode(dec, decodes)
                  ELSE decodes /\ Catch([dec EXCEPT !.err = UnknownE2eType])
    /\ UNCHANGED lidMapped
    /\ DecryptFrame

\* repository.deleteSession settles; a failure is logged, the stub is set either way
DecryptCleanupSettles(ok) ==
    /\ dec.pc = "cleaning"
    /\ SetStub(dec, IF ok THEN "ok" ELSE "threw")
    /\ UNCHANGED lidMapped
    /\ DecryptFrame

\* the stanza has no more children: `if nothing was found to decrypt`
DecryptEndLoop ==
    /\ dec.pc = "loop"
    /\ dec' = IF dec.decryptables = 0 /\ ~dec.isViewOnce
                THEN [dec EXCEPT !.pc = "done", !.stubType = "CIPHERTEXT",
                                 !.stubParams = <<NO_MESSAGE_FOUND_ERROR_TEXT>>]
                ELSE [dec EXCEPT !.pc = "done"]
    /\ ret' = [op |-> "decrypt", outcome |-> "returned"]
    /\ UNCHANGED lidMapped
    /\ DecryptFrame

----------------------------------------------------------------------------
(* Cleanup scheduler: start(), the callbacks of its timers, stop() *)

\* the runCleanup() call that a promise or a callback waits for is over; "none":
\* the call was stopped by an early return and has resolved at once
RunOver(run) == IF run = "none" THEN TRUE ELSE call[run].pc = "idle"

\* the .then() of a startup promise is due
PromiseDue(p) == ~promises[p].settled /\ RunOver(promises[p].run)

\* the continuation of a timeout callback after one of its awaits is due
TimeoutDue(h) ==
    \/ timeouts[h].state = "waiting" /\ promises[timeouts[h].waits].settled
    \/ timeouts[h].state = "running" /\ RunOver(timeouts[h].run)

\* a promise reaction is queued: it runs before any timer callback, any store
\* completion and any further call
MicrotaskPending ==
    \/ \E p \in DOMAIN promises : PromiseDue(p)
    \/ \E h \in DOMAIN timeouts : TimeoutDue(h)

\* the slot that holds the locals of the next runCleanup() call
FreeCaller == CHOOSE c \in Callers : call[c].pc = "idle"

\* the run that a runCleanup() entered in this step belongs to
EnteredRun(c) == IF CleanupSkips THEN "none" ELSE c

\* start() of the cleanup: the guards, the cleanup on startup, setTimeout
SchedulerStart ==
    /\ ~MicrotaskPending
    /\ IF ~cleanupEnabled \/ cleanupInterval # 0
       THEN /\ ret' = [op |-> "start", scheduled |-> FALSE, launched |-> FALSE,
                       skipped |-> FALSE]
            /\ UNCHANGED <<cleanupRunning, call, initialTimeout, startupCleanupPromise,
                           timeouts, promises>>
       ELSE /\ Len(timeouts) < MaxStarts
            /\ IF cleanupOnStartup
               THEN /\ CleanupEnter(FreeCaller)
                    /\ promises' = Append(promises, [run |-> EnteredRun(FreeCaller),
                                                     settled |-> FALSE])
                    /\ startupCleanupPromise' = Len(promises) + 1
               ELSE UNCHANGED <<cleanupRunning, call, promises, startupCleanupPromise>>
            /\ timeouts' = Append(timeouts, [state |-> "armed", waits |-> 0, run |-> "none"])
            /\ initialTimeout' = Len(timeouts) + 1
            /\ ret' = [op |-> "start", scheduled |-> TRUE, launched |-> cleanupOnStartup,
                       skipped |-> cleanupOnStartup /\ CleanupSkips]
    /\ UNCHANGED <<now, trackerVars, pipelineVars, schedulerRest, sessionStore, lidMapped, cleanupEnabled,
                   trackerPresent, lastCleanupAt, cleanupOnStartup, cleanupInterval, intervals>>

\* .catch(...).then(() => { startupCleanupPromise = null }) of a startup run
StartupSettles(p) ==
    /\ p \in DOMAIN promises
    /\ PromiseDue(p)
    /\ promises' = [promises EXCEPT ![p].settled = TRUE]
    /\ startupCleanupPromise' = 0
    /\ ret' = Void
    /\ UNCHANGED <<now, trackerVars, cleanupVars, pipelineVars, schedulerRest, cleanupOnStartup,
                   initialTimeout, cleanupInterval, timeouts, intervals>>

\* the timeout callback calls runCleanup() (`await runCleanup()`)
TimedRun(h) ==
    /\ CleanupEnter(FreeCaller)
    /\ timeouts' = [timeouts EXCEPT ![h].state = "running",
                                    ![h].run = EnteredRun(FreeCaller)]
    /\ ret' = [op |-> "timedRun", timeout |-> h, skipped |-> CleanupSkips]

\* the timeout callback that never waits for the startup cleanup
TimeoutFires_NoWait(h) ==
    /\ h \in DOMAIN timeouts
    /\ timeouts[h].state = "armed"
    /\ ~MicrotaskPending
    /\ initialTimeout' = 0
    /\ TimedRun(h)
    /\ UNCHANGED <<now, trackerVars, pipelineVars, schedulerRest, sessionStore, lidMapped, cleanupEnabled,
                   trackerPresent, lastCleanupAt, cleanupOnStartup, cleanupInterval,
                   startupCleanupPromise, intervals, promises>>

\* the callback of setTimeout, up to its first await
TimeoutFires(h) ==
    /\ h \in DOMAIN timeouts
    /\ timeouts[h].state = "armed"
    /\ ~MicrotaskPending
    /\ initialTimeout' = 0
    /\ IF startupCleanupPromise # 0
       THEN /\ timeouts' = [timeouts EXCEPT ![h].state = "waiting",
                                            ![h].waits = startupCleanupPromise]
            /\ ret' = Void
            /\ UNCHANGED <<cleanupRunning, call>>
       ELSE TimedRun(h)
    /\ UNCHANGED <<now, trackerVars, pipelineVars, schedulerRest, sessionStore, lidMapped, cleanupEnabled,
                   trackerPresent, lastCleanupAt, cleanupOnStartup, cleanupInterval,
                   startupCleanupPromise, intervals, promises>>

\* the callback resumes after `await startupCleanupPromise` or after
\* `await runCleanup()`, up to its next await or its end (setInterval)
TimeoutResumes(h) ==
    /\ h \in DOMAIN timeouts
    /\ TimeoutDue(h)
    /\ ~\E p \in DOMAIN promises : PromiseDue(p)
    /\ IF timeouts[h].state = "waiting"
       THEN /\ TimedRun(h)
            /\ UNCHANGED <<cleanupInterval, intervals>>
       ELSE /\ timeouts' = [timeouts EXCEPT ![h].state = "done"]
            /\ intervals' = Append(intervals, "armed")
            /\ cleanupInterval' = Len(intervals) + 1
            /\ ret' = [op |-> "setInterval", timeout |-> h]
            /\ UNCHANGED <<cleanupRunning, call>>
    /\ UNCHANGED <<now, trackerVars, pipelineVars, schedulerRest, sessionStore, lidMapped, cleanupEnabled,
                   trackerPresent, lastCleanupAt, cleanupOnStartup, initialTimeout,
                   startupCleanupPromise, promises>>

\* the callback of setInterval: `await runCleanup()`
IntervalFires(k) ==
    /\ k \in DOMAIN intervals
    /\ intervals[k] = "armed"
    /\ ~MicrotaskPending
    /\ CleanupEnter(FreeCaller)
    /\ ret' = [op |-> "intervalRun", interval |-> k, skipped |-> CleanupSkips]
    /\ UNCHANGED <<now, trackerVars, pipelineVars, schedulerRest, schedulerVars, sessionStore, lidMapped,
                   cleanupEnabled, trackerPresent, lastCleanupAt>>

\* stop() of the cleanup: clearTimeout and clearInterval of the handles held
SchedulerStop ==
    /\ ~MicrotaskPending
    /\ timeouts' = IF initialTimeout # 0 /\ timeouts[initialTimeout].state = "armed"
                   THEN [timeouts EXCEPT ![initialTimeout].state = "cleared"]
                   ELSE timeouts
    /\ initialTimeout' = 0
    /\ intervals' = IF cleanupInterval # 0
                    THEN [intervals EXCEPT ![cleanupInterval] = "cleared"]
                    ELSE intervals
    /\ cleanupInterval' = 0
    /\ ret' = [op |-> "stop"]
    /\ UNCHANGED <<now, trackerVars, cleanupVars, pipelineVars, schedulerRest, cleanupOnStartup,
                   startupCleanupPromise, promises>>

----------------------------------------------------------------------------
(* App state sync of the chats socket: resyncAppState, the handlers that    *)
(* call it, blockedCollections                                             *)

\* the collections of ALL_WA_PATCH_NAMES the model follows
Collections == {"critical_block", "regular"}

SyncStates == {"Connecting", "AwaitingInitialSync", "Syncing", "Online"}

\* what decoding the answer for one collection can throw
SyncErrors == {"missingKey", "generic", "typeError"}

\* Utils/chat-utils: the error carries data.isMissingKey
isMissingKeyError(error) == error = "missingKey"

\* Utils/chat-utils: a TypeError, or the attempts have reached MAX_SYNC_ATTEMPTS
isAppStateSyncIrrecoverable(error, attempts) ==
    error = "typeError" \/ attempts >= MAX_SYNC_ATTEMPTS

NoVersions == [n \in Collections |-> -1]

IdleResync == [pc |-> "idle", toHandle |-> {}, attempts |-> [n \in Collections |-> 0],
               force |-> {}, decoded |-> {}, more |-> 0]

\* resyncAppState(collections, isInitialSync) is called: the call waits for
\* the transaction of the calls made before it
ResyncAppState(collections, isInitialSync, origin) ==
    /\ resyncsMade < MaxResyncs
    /\ resyncQueue' = Append(resyncQueue, [collections |-> collections,
                                           isInitialSync |-> isInitialSync,
                                           origin |-> origin])
    /\ resyncsMade' = resyncsMade + 1

SyncFrame == UNCHANGED <<now, trackerVars, cleanupVars, pipelineVars, syncRest>>

\* resyncAppState called by another layer (a server sync notification, a patch)
ResyncCall(collections) ==
    /\ ResyncAppState(collections, FALSE, "call")
    /\ ret' = Void
    /\ UNCHANGED <<syncState, blockedCollections, awaitingSyncTimeout, versions, rs>>
    /\ SyncFrame

\* the work of keys.transaction starts for the oldest call
ResyncBegin ==
    /\ rs.pc = "idle"
    /\ resyncQueue # <<>>
    /\ rs' = [IdleResync EXCEPT
                 !.pc = IF Head(resyncQueue).collections = {} THEN "commit" ELSE "request",
                 !.toHandle = Head(resyncQueue).collections]
    /\ ret' = Void
    /\ UNCHANGED <<syncState, blockedCollections, awaitingSyncTimeout, versions, resyncQueue,
                   resyncsMade>>
    /\ SyncFrame

\* resyncAppState is over: the transaction resolved or threw; doAppStateSync,
\* when it awaited this call and the call resolved, goes Online
ResyncEnds(ok) ==
    /\ rs' = IdleResync
    /\ resyncQueue' = Tail(resyncQueue)
    /\ syncState' = IF ok /\ Head(resyncQueue).origin = "doAppStateSync"
                    THEN "Online" ELSE syncState
    /\ ret' = [op |-> "resyncAppState", collections |-> Head(resyncQueue).collections,
               origin |-> Head(resyncQueue).origin, threw |-> ~ok]
    /\ UNCHANGED <<blockedCollections, awaitingSyncTimeout, versions, resyncsMade>>
    /\ SyncFrame

\* one turn of the while loop up to the answer of the query: a node per
\* collection still to handle, return_snapshot for the forced ones and for
\* those without a version
ResyncQuery(ok) ==
    /\ rs.pc = "request"
    /\ IF ok
       THEN /\ rs' = [rs EXCEPT !.pc = "decode",
                                !.force = rs.force \ rs.toHandle,
                                !.decoded = rs.toHandle]
            /\ ret' = [op |-> "syncQuery", collections |-> rs.toHandle,
                       snapshots |-> {n \in rs.toHandle : n \in rs.force \/ versions[n] <= 0}]
            /\ UNCHANGED <<syncState, blockedCollections, awaitingSyncTimeout, versions,
                           resyncQueue, resyncsMade>>
            /\ SyncFrame
       ELSE ResyncEnds(FALSE)

\* the catch block that does not count the attempts of a collection
SyncFailure_NeverCounts(r, name, error) ==
    LET attempts == r.attempts[name]
    IN IF isMissingKeyError(error) /\ attempts >= MAX_SYNC_ATTEMPTS
       THEN [r |-> [r EXCEPT !.toHandle = @ \ {name}], parks |-> TRUE, resets |-> FALSE]
       ELSE IF isMissingKeyError(error)
       THEN [r |-> [r EXCEPT !.force = @ \cup {name}], parks |-> FALSE, resets |-> FALSE]
       ELSE IF isAppStateSyncIrrecoverable(error, attempts)
       THEN [r |-> [r EXCEPT !.toHandle = @ \ {name}], parks |-> FALSE, resets |-> TRUE]
       ELSE [r |-> [r EXCEPT !.force = @ \cup {name}], parks |-> FALSE, resets |-> FALSE]

\* the catch block that gives up a collection blocked on a missing key like
\* any other error
SyncFailure_NeverParks(r, name, error) ==
    LET counted == [r EXCEPT !.attempts[name] = @ + 1]
        attempts == counted.attempts[name]
    IN IF isAppStateSyncIrrecoverable(error, attempts)
       THEN [r |-> [counted EXCEPT !.toHandle = @ \ {name}], parks |-> FALSE, resets |-> TRUE]
       ELSE [r |-> [counted EXCEPT !.force = @ \cup {name}], parks |-> FALSE, resets |-> FALSE]

\* the catch block for collection `name` after its attempts were counted
SyncFailure(r, name, error) ==
    LET counted == [r EXCEPT !.attempts[name] = @ + 1]
        attempts == counted.attempts[name]
    IN IF isMissingKeyError(error) /\ attempts >= MAX_SYNC_ATTEMPTS
       THEN [r |-> [counted EXCEPT !.toHandle = @ \ {name}], parks |-> TRUE, resets |-> FALSE]
       ELSE IF isMissingKeyError(error)
       THEN [r |-> [counted EXCEPT !.force = @ \cup {name}], parks |-> FALSE, resets |-> FALSE]
       ELSE IF isAppStateSyncIrrecoverable(error, attempts)
       THEN [r |-> [counted EXCEPT !.toHandle = @ \ {name}], parks |-> FALSE, resets |-> TRUE]
       ELSE [r |-> [counted EXCEPT !.force = @ \cup {name}], parks |-> FALSE, resets |-> FALSE]

\* the answer for one collection is decoded and, when that succeeds, the new
\* state is written with keys.set; `outcome` is how the decoding ended
\* ("done": no more patches, "more": has_more_patches, or an error)
ResyncDecode(name, outcome) ==
    /\ rs.pc = "decode"
    /\ name \in rs.decoded
    /\ outcome = "more" => rs.more < MaxMorePatches
    /\ LET failed == outcome \in SyncErrors
           written == IF failed THEN versions ELSE [versions EXCEPT ![name] = 1]
           failure == SyncFailure(rs, name, outcome)
           after == IF outcome = "done" THEN [rs EXCEPT !.toHandle = @ \ {name}]
                    ELSE IF outcome = "more" THEN [rs EXCEPT !.more = @ + 1]
                    ELSE failure.r
           rest == rs.decoded \ {name}
       IN /\ rs' = [after EXCEPT !.decoded = rest,
                                 !.pc = IF rest # {} THEN "decode"
                                        ELSE IF after.toHandle = {} THEN "commit"
                                        ELSE "request"]
          /\ versions' = IF failed /\ failure.resets
                         THEN [written EXCEPT ![name] = -1] ELSE written
          /\ blockedCollections' = IF failed /\ failure.parks
                                   THEN blockedCollections \cup {name}
                                   ELSE blockedCollections
          /\ ret' = [op |-> "syncCollection", name |-> name,
                     error |-> IF failed THEN outcome ELSE "none",
                     attempt |-> after.attempts[name]]
    /\ UNCHANGED <<syncState, awaitingSyncTimeout, resyncQueue, resyncsMade>>
    /\ SyncFrame

\* the transaction of resyncAppState commits, or fails to
ResyncCommit(ok) ==
    /\ rs.pc = "commit"
    /\ ResyncEnds(ok)

\* ev.on('creds.update'): an update with or without myAppStateKeyId
CredsUpdate(hasKeyId) ==
    /\ IF ~hasKeyId \/ blockedCollections = {}
       THEN /\ ret' = [op |-> "creds.update", hasKeyId |-> hasKeyId, resyncs |-> {}]
            /\ UNCHANGED <<blockedCollections, resyncQueue, resyncsMade>>
       ELSE IF syncState = "Syncing"
       THEN /\ blockedCollections' = {}
            /\ ret' = [op |-> "creds.update", hasKeyId |-> hasKeyId, resyncs |-> {}]
            /\ UNCHANGED <<resyncQueue, resyncsMade>>
       ELSE /\ ResyncAppState(blockedCollections, FALSE, "creds.update")
            /\ blockedCollections' = {}
            /\ ret' = [op |-> "creds.update", hasKeyId |-> hasKeyId, resyncs |-> blockedCollections]
    /\ UNCHANGED <<syncState, awaitingSyncTimeout, versions, rs>>
    /\ SyncFrame

\* ev.on('connection.update'): isReconnection is accountSyncCounter > 0,
\* willSyncHistory what shouldSyncHistoryMessage answers
ConnectionUpdate(connection, receivedPendingNotifications, isReconnection, willSyncHistory) ==
    /\ IF ~receivedPendingNotifications \/ syncState # "Connecting"
       THEN /\ blockedCollections' = IF connection = "close" THEN {} ELSE blockedCollections
            /\ UNCHANGED <<syncState, awaitingSyncTimeout, resyncQueue, resyncsMade>>
       ELSE IF isReconnection
       THEN /\ blockedCollections' = {}
            /\ syncState' = "Online"
            /\ ResyncAppState(Collections, TRUE, "reconnection")
            /\ UNCHANGED awaitingSyncTimeout
       ELSE IF ~willSyncHistory
       THEN /\ blockedCollections' = IF connection = "close" THEN {} ELSE blockedCollections
            /\ syncState' = "Online"
            /\ UNCHANGED <<awaitingSyncTimeout, resyncQueue, resyncsMade>>
       ELSE /\ blockedCollections' = IF connection = "close" THEN {} ELSE blockedCollections
            /\ syncState' = "AwaitingInitialSync"
            /\ awaitingSyncTimeout' = TRUE
            /\ UNCHANGED <<resyncQueue, resyncsMade>>
    /\ ret' = Void
    /\ UNCHANGED <<versions, rs>>
    /\ SyncFrame

\* the callback of the timeout of AwaitingInitialSync
AwaitingSyncTimeoutFires ==
    /\ awaitingSyncTimeout
    /\ awaitingSyncTimeout' = FALSE
    /\ syncState' = IF syncState = "AwaitingInitialSync" THEN "Online" ELSE syncState
    /\ ret' = [op |-> "awaitingSyncTimeout"]
    /\ UNCHANGED <<blockedCollections, versions, resyncQueue, rs, resyncsMade>>
    /\ SyncFrame

\* upsertMessage for a history sync notification, up to `await
\* resyncAppState` of doAppStateSync
UpsertHistoryMessage(shouldProcessHistoryMsg) ==
    /\ LET decided == IF syncState # "AwaitingInitialSync" THEN syncState
                      ELSE IF shouldProcessHistoryMsg THEN "Syncing" ELSE "Online"
       IN /\ syncState' = decided
          /\ IF shouldProcessHistoryMsg /\ decided = "Syncing"
             THEN /\ blockedCollections' = {}
                  /\ ResyncAppState(Collections, TRUE, "doAppStateSync")
             ELSE UNCHANGED <<blockedCollections, resyncQueue, resyncsMade>>
    /\ awaitingSyncTimeout' = IF syncState = "AwaitingInitialSync" THEN FALSE
                              ELSE awaitingSyncTimeout
    /\ ret' = Void
    /\ UNCHANGED <<versions, rs>>
    /\ SyncFrame

\* upsertMessage for an app state sync key share, after processMessage:
\* doAppStateSync when the socket is Syncing
UpsertKeyShare ==
    /\ IF syncState = "Syncing"
       THEN /\ blockedCollections' = {}
            /\ ResyncAppState(Collections, TRUE, "doAppStateSync")
       ELSE UNCHANGED <<blockedCollections, resyncQueue, resyncsMade>>
    /\ ret' = [op |-> "upsert"]
    /\ UNCHANGED <<syncState, awaitingSyncTimeout, versions, rs>>
    /\ SyncFrame

\* the socket was never connected and nothing was synced
SyncIdle ==
    /\ syncState = "Connecting"
    /\ blockedCollections = {}
    /\ awaitingSyncTimeout = FALSE
    /\ versions = NoVersions
    /\ resyncQueue = <<>>
    /\ rs = IdleResync
    /\ resyncsMade = 0

----------------------------------------------------------------------------
(* The LID mapping store (LIDMappingStore): getLIDForPN and its request      *)
(* coalescing. A resolution is the promise kept in pendingRequests: the     *)
(* database read and, when that finds nothing, the USync query.             *)

\* the phone numbers looked up and the LIDs the server may answer with
LookupKeys == {"pn1", "pn2"}

LidAnswers == {"lidA", "lidB"}

NoMappings == [k \in LookupKeys |-> "none"]

NoReverse == [l \in LidAnswers |-> "none"]

NoPending == [k \in LookupKeys |-> 0]

\* a resolution is in flight until it settles
Unsettled(r) == lookups[r].state # "settled"

MappingFrame ==
    UNCHANGED <<now, trackerVars, cleanupVars, pipelineVars, mappingRest, storeVars, mergeVars>>

\* a store in which no request would ever find a promise to reuse
Coalesces_Never(key) == FALSE

\* pendingRequests holds a promise for the key: the request reuses it
Coalesces(key) == pendingRequests[key] # 0

\* getLIDForPN(pn) up to its first await. Flow: cache, then the promise in
\* flight for the key, then a resolution of its own (database, then USync)
\* registered with pendingRequests.set(key, promise)
GetLIDForPNCall(key) ==
    /\ Len(lookupCalls) < MaxLookups
    /\ IF lidCache[key] # "none"
       THEN /\ lookupCalls' = Append(lookupCalls, [key |-> key, res |-> 0, returned |-> TRUE])
            /\ ret' = [op |-> "getLIDForPN", call |-> Len(lookupCalls) + 1, key |-> key,
                       result |-> lidCache[key], res |-> 0]
            /\ UNCHANGED <<pendingRequests, lookups>>
       ELSE IF Coalesces(key)
       THEN /\ lookupCalls' = Append(lookupCalls,
                                    [key |-> key, res |-> pendingRequests[key], returned |-> FALSE])
            /\ ret' = Void
            /\ UNCHANGED <<pendingRequests, lookups>>
       ELSE /\ lookups' = Append(lookups,
                                [key |-> key, state |-> "db", result |-> "none", fetches |-> 0])
            /\ pendingRequests' = [pendingRequests EXCEPT ![key] = Len(lookups) + 1]
            /\ lookupCalls' = Append(lookupCalls,
                                    [key |-> key, res |-> Len(lookups) + 1, returned |-> FALSE])
            /\ ret' = Void
    /\ UNCHANGED <<mappingStore, lidCache, pnCache>>
    /\ MappingFrame

\* the shared resolution settles: its result is kept for the callers that
\* await it and the coalescing table loses the entry of the key
LookupSettled(r, result) ==
    /\ lookups' = [lookups EXCEPT ![r].state = "settled", ![r].result = result]
    /\ pendingRequests' = [pendingRequests EXCEPT ![lookups[r].key] = 0]

\* the database read of a resolution settles: a rejection, a stored mapping
\* (cached and returned), or nothing, and then the USync query is sent
LookupDbSettles(r, ok) ==
    /\ r \in 1..Len(lookups)
    /\ lookups[r].state = "db"
    /\ LET key == lookups[r].key
           lid == mappingStore[key]
       IN IF ~ok
          THEN /\ LookupSettled(r, "error")
               /\ UNCHANGED <<lidCache, pnCache>>
          ELSE IF lid # "none"
          THEN /\ LookupSettled(r, lid)
               /\ lidCache' = [lidCache EXCEPT ![key] = lid]
               /\ pnCache' = [pnCache EXCEPT ![lid] = key]
          ELSE /\ lookups' = [lookups EXCEPT ![r].state = "usync", ![r].fetches = @ + 1]
               /\ UNCHANGED <<pendingRequests, lidCache, pnCache>>
    /\ ret' = Void
    /\ UNCHANGED <<mappingStore, lookupCalls>>
    /\ MappingFrame

\* the USync query of a resolution settles, retries included: the LID the
\* server answered, stored and cached, or nothing ("none": absent)
LookupUSyncSettles(r, answer) ==
    /\ r \in 1..Len(lookups)
    /\ lookups[r].state = "usync"
    /\ LET key == lookups[r].key
       IN IF answer # "none"
          THEN /\ mappingStore' = [mappingStore EXCEPT ![key] = answer]
               /\ lidCache' = [lidCache EXCEPT ![key] = answer]
               /\ pnCache' = [pnCache EXCEPT ![answer] = key]
          ELSE UNCHANGED <<mappingStore, lidCache, pnCache>>
    /\ LookupSettled(r, answer)
    /\ ret' = Void
    /\ UNCHANGED lookupCalls
    /\ MappingFrame

\* a caller that awaited a resolution resumes with what it settled with
LookupReturns(c) ==
    /\ c \in 1..Len(lookupCalls)
    /\ ~lookupCalls[c].returned
    /\ ~Unsettled(lookupCalls[c].res)
    /\ lookupCalls' = [lookupCalls EXCEPT ![c].returned = TRUE]
    /\ ret' = [op |-> "getLIDForPN", call |-> c, key |-> lookupCalls[c].key,
               result |-> lookups[lookupCalls[c].res].result, res |-> lookupCalls[c].res]
    /\ UNCHANGED <<mappingStore, lidCache, pnCache, pendingRequests, lookups>>
    /\ MappingFrame

----------------------------------------------------------------------------
(* The LID mapping store: storeLIDPNMappings, in its three phases            *)
(* Validate, Fetch, Store                                                   *)

\* a mapping of a batch: pn "bad" stands for a record that is not well formed
Mappings == [pn : LookupKeys \cup {"bad"}, lid : LidAnswers]

\* the batches: up to MaxBatch mappings, no two of them for the same pn
Batches ==
    {b \in UNION {[1..n -> Mappings] : n \in 1..MaxBatch} :
        \A i, j \in DOMAIN b : b[i].pn = b[j].pn => i = j}

NoStoreCall == [pc |-> "idle", batch |-> <<>>, valid |-> <<>>, toWrite |-> <<>>]

NoStore == [batch |-> <<>>, stored |-> 0, skipped |-> 0, errors |-> 0]

\* the subsequence of the elements of seq that satisfy Keep
RECURSIVE SelectMappings(_, _)
SelectMappings(seq, keep) ==
    IF seq = <<>> THEN <<>>
    ELSE IF Head(seq) \in keep THEN <<Head(seq)>> \o SelectMappings(Tail(seq), keep)
    ELSE SelectMappings(Tail(seq), keep)

\* phase 1, Validate: the well-formed mappings of the batch
ValidMappings(batch) == SelectMappings(batch, {m \in Mappings : m.pn \in LookupKeys})

\* a second phase that would take every valid mapping for new
NewOrChanged_NoFetch(valid, existing) == valid

\* phase 2, Fetch: the valid mappings that the records read do not hold already
NewOrChanged(valid, existing) ==
    SelectMappings(valid, {m \in Mappings : m.pn \in LookupKeys /\ existing[m.pn] # m.lid})

StoreFrame ==
    UNCHANGED <<now, trackerVars, cleanupVars, pipelineVars, mappingRest,
                pendingRequests, lookups, lookupCalls>>

\* storeLIDPNMappings(mappings): Validate, then the batched read is sent
StoreMappingsEnter(batch) ==
    /\ storesMade < MaxStores
    /\ storeCall.pc = "idle"
    /\ storesMade' = storesMade + 1
    /\ storeCall' = [pc |-> "fetch", batch |-> batch, valid |-> ValidMappings(batch),
                     toWrite |-> <<>>]
    /\ UNCHANGED <<mappingStore, lidCache, pnCache, lastStore>>
    /\ StoreFrame

\* a call of storeLIDPNMappings from outside the socket
StoreMappingsCall(batch) ==
    /\ StoreMappingsEnter(batch)
    /\ ret' = Void
    /\ UNCHANGED mergeVars

\* the batched read settles: Fetch keeps what is new or changed, and the
\* transaction that writes it is sent
StoreMappingsFetched ==
    /\ storeCall.pc = "fetch"
    /\ storeCall' = [storeCall EXCEPT !.pc = "txn",
                                      !.toWrite = NewOrChanged(storeCall.valid, mappingStore)]
    /\ ret' = Void
    /\ UNCHANGED <<mappingStore, lidCache, pnCache, lastStore, storesMade>>
    /\ UNCHANGED mergeVars
    /\ StoreFrame

\* the store and the two caches after the writes of seq, in order
RECURSIVE WriteThrough(_, _)
WriteThrough(state, seq) ==
    IF seq = <<>> THEN state
    ELSE LET m == Head(seq)
         IN WriteThrough([store |-> [state.store EXCEPT ![m.pn] = m.lid],
                          lid |-> [state.lid EXCEPT ![m.pn] = m.lid],
                          pn |-> [state.pn EXCEPT ![m.lid] = m.pn]],
                         Tail(seq))

\* phase 3, Store: the writes that do not fail reach the store and both
\* caches, a write that fails is counted in errors and the rest goes on
StoreMappingsCommitted(failed) ==
    /\ storeCall.pc = "txn"
    /\ failed \subseteq {storeCall.toWrite[i] : i \in DOMAIN storeCall.toWrite}
    /\ LET written == SelectMappings(storeCall.toWrite, Mappings \ failed)
           after == WriteThrough([store |-> mappingStore, lid |-> lidCache, pn |-> pnCache],
                                 written)
           result == [batch |-> storeCall.batch,
                      stored |-> Len(written),
                      skipped |-> Len(storeCall.batch) - Len(storeCall.toWrite),
                      errors |-> Cardinality(failed)]
       IN /\ mappingStore' = after.store
          /\ lidCache' = after.lid
          /\ pnCache' = after.pn
          /\ lastStore' = result
          /\ ret' = [op |-> "storeLIDPNMappings", batch |-> result.batch,
                     stored |-> result.stored, skipped |-> result.skipped,
                     errors |-> result.errors]
    /\ storeCall' = NoStoreCall
    /\ UNCHANGED <<storesMade, mergeVars>>
    /\ StoreFrame

----------------------------------------------------------------------------
(* The chats socket: the handler of 'lid-mapping.update' *)

\* the jids of the mappings of an event; NoJid stands for an empty string
EventLids == {LidJid("lidA"), PnJid("pn1", 1), NoJid}

EventPns == {PnJid("pn1", 0), PnJid("pn2", 0)}

EventMappings == [lid : EventLids, pn : EventPns]

\* jidNormalizedUser(jid): the device suffix of the user part is stripped; a
\* string without '@' is returned as it is
jidNormalizedUser(jid) == IF jid.server = "" THEN jid ELSE [jid EXCEPT !.device = 0]

\* the mapping as the store sees it: a LID for a phone number, or a record
\* that is not well formed
AsStoreMapping(m) ==
    IF m.lid.server = "lid" /\ m.pn.server = "s.whatsapp.net"
    THEN [pn |-> m.pn.user, lid |-> m.lid.user]
    ELSE [pn |-> "bad", lid |-> "lidA"]

AsBatch(mappings) == [i \in DOMAIN mappings |-> AsStoreMapping(mappings[i])]

\* the events: up to MaxBatch mappings, no two of them for the same phone number
MappingEvents ==
    {e \in UNION {[1..n -> EventMappings] : n \in 1..MaxBatch} :
        \A i, j \in DOMAIN e :
           (AsBatch(e)[i].pn = AsBatch(e)[j].pn /\ AsBatch(e)[i].pn # "bad") => i = j}

NoHandler == [pc |-> "idle", mappings |-> <<>>, threw |-> FALSE]

NothingEmitted == [count |-> 0, last |-> <<>>]

\* ev.emit('chats.update', payload)
Emit(payload) == [count |-> emitted.count + 1, last |-> payload]

\* a handler that would notify of every mapping
NotifiesMerge_AnyPair(lidUser, pnUser) == TRUE

\* lidUser && pnUser && lidUser !== pnUser
NotifiesMerge(lidUser, pnUser) == lidUser # NoJid /\ pnUser # NoJid /\ lidUser # pnUser

\* mergeNotifications: one entry for each mapping that passes the test, in
\* the order of the mappings
RECURSIVE MergeNotifications(_, _)
MergeNotifications(mappings, mergedAt) ==
    IF mappings = <<>> THEN <<>>
    ELSE LET lidUser == jidNormalizedUser(Head(mappings).lid)
             pnUser == jidNormalizedUser(Head(mappings).pn)
         IN (IF NotifiesMerge(lidUser, pnUser)
             THEN <<[id |-> pnUser, merged |-> TRUE, previousId |-> lidUser,
                     mergedAt |-> mergedAt]>>
             ELSE <<>>) \o MergeNotifications(Tail(mappings), mergedAt)

MergeFrame ==
    UNCHANGED <<now, trackerVars, cleanupVars, pipelineVars, schedulerVars, syncVars,
                migrationVars, socketVars>>

\* ev.on('lid-mapping.update'): the handler calls storeLIDPNMappings(mappings)
\* and awaits it
LidMappingUpdate(mappings) ==
    /\ mergeHandler.pc = "idle"
    /\ StoreMappingsEnter(AsBatch(mappings))
    /\ mergeHandler' = [pc |-> "await", mappings |-> mappings, threw |-> FALSE]
    /\ ret' = Void
    /\ UNCHANGED emitted

\* storeLIDPNMappings rejects: its batched read did
StoreMappingsThrows ==
    /\ mergeHandler.pc = "await"
    /\ storeCall.pc = "fetch"
    /\ storeCall' = NoStoreCall
    /\ mergeHandler' = [mergeHandler EXCEPT !.threw = TRUE]
    /\ ret' = Void
    /\ UNCHANGED <<mappingStore, lidCache, pnCache, pendingRequests, lookups, lookupCalls,
                   lastStore, storesMade, emitted>>
    /\ MergeFrame

\* the handler resumes: after a result it collects the merge notifications
\* and emits them as one 'chats.update', after a rejection it logs a warning
LidMappingStored ==
    /\ mergeHandler.pc = "await"
    /\ storeCall.pc = "idle"
    /\ LET mergeNotifications == MergeNotifications(mergeHandler.mappings, now)
       IN /\ emitted' = IF ~mergeHandler.threw /\ Len(mergeNotifications) > 0
                         THEN Emit(mergeNotifications)
                         ELSE emitted
          /\ ret' = [op |-> "lid-mapping.update", mappings |-> mergeHandler.mappings,
                     threw |-> mergeHandler.threw,
                     errors |-> IF mergeHandler.threw THEN 0 ELSE lastStore.errors]
    /\ mergeHandler' = NoHandler
    /\ UNCHANGED mappingVars
    /\ MergeFrame

\* no event was handled
MergeIdle ==
    /\ mergeHandler = NoHandler
    /\ emitted = NothingEmitted

----------------------------------------------------------------------------
(* The socket: the offline-buffer safety timer *)

NoBufferTimer == [state |-> "none", due |-> 0]

BufferFrame == UNCHANGED <<trackerVars, cleanupVars, pipelineVars, bufferRest>>

\* clearTimeout(state.offlineBufferTimeout): a timer that has not fired is cancelled
ClearedTimer == IF bufferTimer.state = "armed"
                THEN [bufferTimer EXCEPT !.state = "cleared"]
                ELSE bufferTimer

\* startBuffer(): the events are buffered and the timer is armed
StartBuffer ==
    /\ bufferTimer.state = "none"
    /\ ~socketClosed
    /\ didStartBuffer' = TRUE
    /\ offlineBufferTimeout' = 1
    /\ bufferTimer' = [state |-> "armed", due |-> now + OFFLINE_BUFFER_TIMEOUT_MS]
    /\ ret' = [op |-> "startBuffer"]
    /\ UNCHANGED <<now, bufferFlushes, warnCalls, socketClosed, offlineArrivals>>
    /\ BufferFrame

\* the callback of the timer, OFFLINE_BUFFER_TIMEOUT_MS after it was armed
OfflineBufferTimeoutFires ==
    /\ bufferTimer.state = "armed"
    /\ now >= bufferTimer.due
    /\ bufferTimer' = [bufferTimer EXCEPT !.state = "fired"]
    /\ offlineBufferTimeout' = 0
    /\ IF didStartBuffer
       THEN /\ warnCalls' = warnCalls + 1
            /\ bufferFlushes' = bufferFlushes + 1
            /\ didStartBuffer' = FALSE
       ELSE UNCHANGED <<warnCalls, bufferFlushes, didStartBuffer>>
    /\ ret' = [op |-> "offlineBufferTimeout"]
    /\ UNCHANGED <<now, socketClosed, offlineArrivals>>
    /\ BufferFrame

\* onOffline(): the handler of CB:ib,,offline
OnOffline ==
    /\ offlineArrivals < MaxOfflineArrivals
    /\ offlineArrivals' = offlineArrivals + 1
    /\ IF offlineBufferTimeout # 0
       THEN /\ bufferTimer' = ClearedTimer
            /\ offlineBufferTimeout' = 0
       ELSE UNCHANGED <<bufferTimer, offlineBufferTimeout>>
    /\ IF didStartBuffer
       THEN /\ bufferFlushes' = bufferFlushes + 1
            /\ didStartBuffer' = FALSE
       ELSE UNCHANGED <<bufferFlushes, didStartBuffer>>
    /\ ret' = [op |-> "onOffline"]
    /\ UNCHANGED <<now, warnCalls, socketClosed>>
    /\ BufferFrame

\* an end() that would leave the timer and the flag as they are
OnClose_KeepsTimer ==
    /\ ~socketClosed
    /\ socketClosed' = TRUE
    /\ ret' = [op |-> "onClose"]
    /\ UNCHANGED <<now, bufferTimer, offlineBufferTimeout, didStartBuffer, bufferFlushes,
                   warnCalls, offlineArrivals>>
    /\ BufferFrame

\* onClose(): the part of end() that clears the timer and resets the flag
OnClose ==
    /\ ~socketClosed
    /\ socketClosed' = TRUE
    /\ IF offlineBufferTimeout # 0
       THEN /\ bufferTimer' = ClearedTimer
            /\ offlineBufferTimeout' = 0
       ELSE UNCHANGED <<bufferTimer, offlineBufferTimeout>>
    /\ didStartBuffer' = FALSE
    /\ ret' = [op |-> "onClose"]
    /\ UNCHANGED <<now, bufferFlushes, warnCalls, offlineArrivals>>
    /\ BufferFrame

\* a second of the timers' clock goes by (jest.advanceTimersByTime(1_000))
BufferTimePasses ==
    /\ now <= OFFLINE_BUFFER_TIMEOUT_MS + 1000
    /\ now' = now + 1000
    /\ ret' = Void
    /\ UNCHANGED bufferVars
    /\ BufferFrame

\* makeState(): no buffer was started
BufferIdle ==
    /\ didStartBuffer = FALSE
    /\ offlineBufferTimeout = 0
    /\ bufferTimer = NoBufferTimer
    /\ bufferFlushes = 0
    /\ warnCalls = 0
    /\ socketClosed = FALSE
    /\ offlineArrivals = 0

----------------------------------------------------------------------------
(* The receiving socket: handleBadAck and its retry of error 463 *)

MsgIds == {"msg-A", ""}

AckSenders == {PnJid("pn1", 0), PnJid("pn1", 1), PnJid("pn2", 0)}

AckErrors == {"463", "479"}

AckAttrs == [id : MsgIds, from : AckSenders, error : AckErrors]

\* retryKey: `${jid}:${msgId}` with jid = jidNormalizedUser(attrs.from)
RetryKey(attrs) == [jid |-> jidNormalizedUser(attrs.from), id |-> attrs.id]

\* a guard that would not look at the keys held
MayRetry_NoGuard(attrs) == attrs.error = "463"

\* attrs.error === '463' and msgId && jid && !tcTokenRetriedMsgIds.has(retryKey)
MayRetry(attrs) ==
    /\ attrs.error = "463"
    /\ attrs.id # ""
    /\ jidNormalizedUser(attrs.from) # NoJid
    /\ RetryKey(attrs) \notin tcTokenRetriedMsgIds

AckFrame == UNCHANGED <<trackerVars, cleanupVars, pipelineVars, ackRest>>

\* emit('messages.update', [{key, update: {status: 'ERROR', ...}}]) and return
ErrorEmitted(attrs, fetched, relayed) ==
    [op |-> "handleBadAck", attrs |-> attrs, action |-> "error_emitted",
     fetched |-> fetched, relayed |-> relayed]

\* handleBadAck(attrs) up to its first await: a 463 for a key that is not
\* held adds the key, arms its expiry and asks for the message; anything
\* else emits ERROR
HandleBadAck(attrs) ==
    /\ acksHandled < MaxAcks
    /\ acksHandled' = acksHandled + 1
    /\ IF MayRetry(attrs)
       THEN /\ tcTokenRetriedMsgIds' = tcTokenRetriedMsgIds \cup {RetryKey(attrs)}
            /\ retryKeyTimers' = retryKeyTimers \cup
                                    {[key |-> RetryKey(attrs), due |-> now + RETRY_KEY_TTL_MS]}
            /\ ackCalls' = Append(ackCalls, [attrs |-> attrs, pc |-> "getMessage",
                                             startedAt |-> now, relays |-> 0])
            /\ ret' = Void
       ELSE /\ ret' = ErrorEmitted(attrs, FALSE, FALSE)
            /\ UNCHANGED <<tcTokenRetriedMsgIds, retryKeyTimers, ackCalls>>
    /\ UNCHANGED now
    /\ AckFrame

\* getMessage(key) settles, with the fallback to the recent messages: with
\* a message the handler waits 1500 ms, without one it emits ERROR
AckMessageFetched(c, found) ==
    /\ c \in 1..Len(ackCalls)
    /\ ackCalls[c].pc = "getMessage"
    /\ IF found
       THEN /\ ackCalls' = [ackCalls EXCEPT ![c].pc = "delay"]
            /\ ret' = Void
       ELSE /\ ackCalls' = [ackCalls EXCEPT ![c].pc = "done"]
            /\ ret' = ErrorEmitted(ackCalls[c].attrs, TRUE, FALSE)
    /\ UNCHANGED <<now, tcTokenRetriedMsgIds, retryKeyTimers, acksHandled>>
    /\ AckFrame

\* the delay is over: relayMessage(jid, msg, ...) is called
AckRelayCalled(c) ==
    /\ c \in 1..Len(ackCalls)
    /\ ackCalls[c].pc = "delay"
    /\ ackCalls' = [ackCalls EXCEPT ![c].pc = "relay", ![c].relays = @ + 1]
    /\ ret' = Void
    /\ UNCHANGED <<now, tcTokenRetriedMsgIds, retryKeyTimers, acksHandled>>
    /\ AckFrame

\* relayMessage settles: the retry succeeded, or the handler falls through
\* to ERROR
AckRelaySettles(c, ok) ==
    /\ c \in 1..Len(ackCalls)
    /\ ackCalls[c].pc = "relay"
    /\ ackCalls' = [ackCalls EXCEPT ![c].pc = "done"]
    /\ ret' = IF ok
              THEN [op |-> "handleBadAck", attrs |-> ackCalls[c].attrs,
                    action |-> "retry_succeeded", fetched |-> TRUE, relayed |-> TRUE]
              ELSE ErrorEmitted(ackCalls[c].attrs, TRUE, TRUE)
    /\ UNCHANGED <<now, tcTokenRetriedMsgIds, retryKeyTimers, acksHandled>>
    /\ AckFrame

\* setTimeout(() => tcTokenRetriedMsgIds.delete(retryKey), 60_000) fires
RetryKeyExpires(timer) ==
    /\ timer \in retryKeyTimers
    /\ now >= timer.due
    /\ retryKeyTimers' = retryKeyTimers \ {timer}
    /\ tcTokenRetriedMsgIds' = tcTokenRetriedMsgIds \ {timer.key}
    /\ ret' = Void
    /\ UNCHANGED <<now, ackCalls, acksHandled>>
    /\ AckFrame

\* half a TTL of the retry keys goes by
AckTimePasses ==
    /\ now <= RETRY_KEY_TTL_MS
    /\ now' = now + (RETRY_KEY_TTL_MS \div 2)
    /\ ret' = Void
    /\ UNCHANGED ackVars
    /\ AckFrame

\* no bad ack was handled
AckIdle ==
    /\ tcTokenRetriedMsgIds = {}
    /\ retryKeyTimers = {}
    /\ ackCalls = <<>>
    /\ acksHandled = 0

----------------------------------------------------------------------------
(* Trusted-contact tokens: isTcTokenExpired, resolveTcTokenJid and
   buildTcTokenFromJid *)

\* a timestamp as stored: absent, a string that is not a number, or seconds
NoTimestamp == [kind |-> "undefined", value |-> 0]
NaNTimestamp == [kind |-> "NaN", value |-> 0]
Seconds(n) == [kind |-> "number", value |-> n]

\* the clock of a socket just made: a little into the fifth bucket
TcEpoch == 4 * TC_TOKEN_BUCKET_DURATION + 100

Timestamps == {NoTimestamp, NaNTimestamp, Seconds(TC_TOKEN_BUCKET_DURATION - 1),
               Seconds(TC_TOKEN_BUCKET_DURATION), Seconds(TcEpoch)}

\* isTcTokenExpired(timestamp) at the clock value nowSeconds
isTcTokenExpired(timestamp, nowSeconds) ==
    IF timestamp.kind # "number" THEN TRUE
    ELSE LET currentBucket == nowSeconds \div TC_TOKEN_BUCKET_DURATION
             cutoffBucket == currentBucket - (TC_TOKEN_NUM_BUCKETS - 1)
             cutoffTimestamp == cutoffBucket * TC_TOKEN_BUCKET_DURATION
         IN timestamp.value < cutoffTimestamp

\* an entry of the store: token "undefined" is an entry without a token, ""
\* an empty buffer
NoTcEntry == [stored |-> FALSE, token |-> "undefined", timestamp |-> NoTimestamp,
              senderTimestamp |-> NoTimestamp]

TcEntries == {NoTcEntry}
             \cup [stored : {TRUE}, token : {"tok"}, timestamp : Timestamps,
                   senderTimestamp : {NoTimestamp}]
             \cup [stored : {TRUE}, token : {"", "undefined"}, timestamp : {Seconds(TcEpoch)},
                   senderTimestamp : {NoTimestamp}]

TcStorageJids == {PnJid("pn1", 0), LidJid("lidA")}

TcCallerJids == {PnJid("pn1", 0), PnJid("pn1", 1), LidJid("lidA")}

PictureNode == [tag |-> "picture", content |-> ""]

TcTokenNode(token) == [tag |-> "tctoken", content |-> token]

BaseContents == {<<>>, <<PictureNode>>}

NoTcCall == [pc |-> "idle"]

\* resolveTcTokenJid(jid, getLIDForPN), lid being what getLIDForPN answers
\* (NoJid for null)
resolveTcTokenJid(jid, lid) ==
    LET normalized == jidNormalizedUser(jid)
    IN IF isLidUser(normalized) THEN normalized
       ELSE IF lid # NoJid THEN lid ELSE normalized

\* baseContent.length > 0 ? baseContent : undefined
BaseOrUndefined(baseContent) ==
    IF Len(baseContent) > 0 THEN [defined |-> TRUE, nodes |-> baseContent]
    ELSE [defined |-> FALSE, nodes |-> <<>>]

\* !tcTokenBuffer?.length || isTcTokenExpired(entry?.timestamp)
NothingToAttach(entry, nowSeconds) ==
    \/ entry.token \in {"undefined", ""}
    \/ isTcTokenExpired(entry.timestamp, nowSeconds)

\* a cleanup that would leave every entry where it is
NeedsCleanup_Never(entry) == FALSE

\* if(tcTokenBuffer): there is a buffer, an empty one too
NeedsCleanup(entry) == entry.token # "undefined"

TcTokenFrame ==
    UNCHANGED <<now, trackerVars, cleanupVars, pipelineVars, tcTokenRest, tcStoreCalls>>

\* what a buildTcTokenFromJid call returned, with what it had read
BuildReturns(built, result, threw) ==
    [op |-> "buildTcTokenFromJid", storageJid |-> built.storageJid, entry |-> built.entry,
     at |-> tcClock, baseContent |-> built.baseContent, result |-> result,
     setCalls |-> built.setCalls, storeThrew |-> threw]

\* buildTcTokenFromJid({authState, jid, baseContent, getLIDForPN}) up to its
\* first await: of the resolver when there is one, else of keys.get
BuildTcTokenFromJid(jid, baseContent, withResolver) ==
    /\ tcCall = NoTcCall
    /\ tcBuilds < MaxBuilds
    /\ tcBuilds' = tcBuilds + 1
    /\ tcCall' = [pc |-> IF withResolver /\ ~isLidUser(jidNormalizedUser(jid))
                        THEN "getLIDForPN" ELSE "get",
                  jid |-> jid, baseContent |-> baseContent,
                  storageJid |-> IF withResolver THEN resolveTcTokenJid(jid, NoJid) ELSE jid,
                  entry |-> NoTcEntry, setCalls |-> 0]
    /\ ret' = Void
    /\ UNCHANGED <<tcTokens, tcClock, tcSetCalls>>
    /\ TcTokenFrame

\* getLIDForPN settles with a LID, with null, or rejects
TcTokenJidResolved(lid, ok) ==
    /\ tcCall.pc = "getLIDForPN"
    /\ IF ok
       THEN /\ tcCall' = [tcCall EXCEPT !.pc = "get",
                                        !.storageJid = resolveTcTokenJid(tcCall.jid, lid)]
            /\ ret' = Void
       ELSE /\ tcCall' = NoTcCall
            /\ ret' = BuildReturns(tcCall, BaseOrUndefined(tcCall.baseContent), TRUE)
    /\ UNCHANGED <<tcTokens, tcClock, tcSetCalls, tcBuilds>>
    /\ TcTokenFrame

\* keys.get('tctoken', [storageJid]) settles: the token is attached, or
\* there is nothing to attach and the entry is deleted or left
TcTokenRead(ok) ==
    /\ tcCall.pc = "get"
    /\ LET entry == IF tcCall.storageJid \in DOMAIN tcTokens
                    THEN tcTokens[tcCall.storageJid] ELSE NoTcEntry
           read == [tcCall EXCEPT !.entry = entry]
       IN IF ~ok
          THEN /\ tcCall' = NoTcCall
               /\ ret' = BuildReturns(tcCall, BaseOrUndefined(tcCall.baseContent), TRUE)
               /\ UNCHANGED tcSetCalls
          ELSE IF NothingToAttach(entry, tcClock)
          THEN IF NeedsCleanup(entry)
               THEN /\ tcCall' = [read EXCEPT !.pc = "set", !.setCalls = 1]
                    /\ tcSetCalls' = tcSetCalls + 1
                    /\ ret' = Void
               ELSE /\ tcCall' = NoTcCall
                    /\ ret' = BuildReturns(read, BaseOrUndefined(tcCall.baseContent), FALSE)
                    /\ UNCHANGED tcSetCalls
          ELSE /\ tcCall' = NoTcCall
               /\ ret' = BuildReturns(read,
                              [defined |-> TRUE,
                               nodes |-> Append(tcCall.baseContent, TcTokenNode(entry.token))],
                              FALSE)
               /\ UNCHANGED tcSetCalls
    /\ UNCHANGED <<tcTokens, tcClock, tcBuilds>>
    /\ TcTokenFrame

\* keys.set({tctoken: {[storageJid]: null}}) settles
TcTokenDeleted(ok) ==
    /\ tcCall.pc = "set"
    /\ tcTokens' = IF ok /\ tcCall.storageJid \in DOMAIN tcTokens
                   THEN [tcTokens EXCEPT ![tcCall.storageJid] = NoTcEntry]
                   ELSE tcTokens
    /\ tcCall' = NoTcCall
    /\ ret' = BuildReturns(tcCall, BaseOrUndefined(tcCall.baseContent), ~ok)
    /\ UNCHANGED <<tcClock, tcSetCalls, tcBuilds>>
    /\ TcTokenFrame

\* a token bucket goes by
TcBucketPasses ==
    /\ tcClock < TcEpoch + MaxBucketsPassed * TC_TOKEN_BUCKET_DURATION
    /\ tcClock' = tcClock + TC_TOKEN_BUCKET_DURATION
    /\ ret' = Void
    /\ UNCHANGED <<tcTokens, tcCall, tcSetCalls, tcBuilds>>
    /\ TcTokenFrame

----------------------------------------------------------------------------
(* cleanupCorruptedSession over the sessions of the repository *)

JidServers == {"s.whatsapp.net", "lid", "hosted", "hosted.lid"}

\* the identities cleanupCorruptedSession is given; NoJid is a string that
\* jidDecode cannot decode
CorruptedJids ==
    {[user |-> u, device |-> d, server |-> sv] : u \in {"u1", "u2"}, d \in {0, 3, 7},
                                                  sv \in JidServers}
    \cup {NoJid}

\* the identities that may hold a session when the socket starts
SessionIdentities ==
    {PnJid("u1", 0), PnJid("u1", 3), PnJid("u1", 6), PnJid("u1", 7), PnJid("u2", 0),
     LidJid("u1"), [user |-> "u1", device |-> 7, server |-> "hosted.lid"]}

NoCorruptedCall == [pc |-> "idle", jid |-> NoJid, jids |-> <<>>]

CorruptedFrame == UNCHANGED <<now, trackerVars, cleanupVars, pipelineVars, corruptedRest>>

SeqRange(seq) == {seq[i] : i \in 1..Len(seq)}

\* cleanupCorruptedSession(jid, repository, logger) up to its await: an
\* identity without a user returns 0, another one builds the list and calls
\* repository.deleteSession
CleanupCorruptedSession(jid) ==
    /\ corruptedCall.pc = "idle"
    /\ IF jid.user = ""
       THEN /\ corruptedCall' = [pc |-> "idle", jid |-> jid, jids |-> <<>>]
            /\ ret' = [op |-> "cleanupCorruptedSession", outcome |-> "returned", count |-> 0]
       ELSE /\ corruptedCall' = [pc |-> "deleteSession", jid |-> jid,
                                 jids |-> jidsToDelete(jid)]
            /\ ret' = Void
    /\ UNCHANGED signalSessions
    /\ CorruptedFrame

\* repository.deleteSession(jidsToDelete) settles
DeleteSessionSettles(ok) ==
    /\ corruptedCall.pc = "deleteSession"
    /\ signalSessions' = IF ok THEN signalSessions \ SeqRange(corruptedCall.jids)
                         ELSE signalSessions
    /\ corruptedCall' = [corruptedCall EXCEPT !.pc = "idle"]
    /\ ret' = IF ok
              THEN [op |-> "cleanupCorruptedSession", outcome |-> "returned",
                    count |-> Len(corruptedCall.jids)]
              ELSE [op |-> "cleanupCorruptedSession", outcome |-> "threw", count |-> 0]
    /\ CorruptedFrame

\* a repository that cleanupCorruptedSession was never called on
CorruptedIdle ==
    /\ signalSessions = {}
    /\ corruptedCall = NoCorruptedCall

\* a token node of an IQ result: attrs.type, attrs.t and a content
TokenNodes == [type : {"trusted_contact"}, t : {NoTimestamp, Seconds(TC_TOKEN_BUCKET_DURATION),
                                                Seconds(TcEpoch)}]
              \cup {[type |-> "other", t |-> Seconds(TcEpoch)]}

IqResults == UNION {[1..n -> TokenNodes] : n \in 1..MaxTokenNodes}

NoTcStoreCall == [pc |-> "idle"]

NoTcStoreCalls == [c \in 1..MaxTcStores |-> NoTcStoreCall]

\* timestamp ? Number(timestamp) : 0, with -1 standing for NaN
NumberOrZero(timestamp) ==
    IF timestamp.kind = "undefined" THEN 0
    ELSE IF timestamp.kind = "NaN" THEN -1 ELSE timestamp.value

\* existingTs > 0 && incomingTs > 0 && existingTs > incomingTs
IsOlderThanStored(existingEntry, t) ==
    LET existingTs == NumberOrZero(existingEntry.timestamp)
        incomingTs == NumberOrZero(t)
    IN existingTs > 0 /\ incomingTs > 0 /\ existingTs > incomingTs

\* !incomingTs: 0 and NaN alike
HasNoTimestamp(t) == NumberOrZero(t) <= 0

\* {...existingEntry, token: Buffer.from(tokenNode.content), timestamp: tokenNode.attrs.t}
MergedEntry(existingEntry, t) ==
    [existingEntry EXCEPT !.stored = TRUE, !.token = "tok", !.timestamp = t]

\* the index of the first token node from i on that the loop does not skip
\* for its type, 0 when there is none
RECURSIVE NextTrusted(_, _)
NextTrusted(nodes, i) ==
    IF i > Len(nodes) THEN 0
    ELSE IF nodes[i].type = "trusted_contact" THEN i
    ELSE NextTrusted(nodes, i + 1)

TcStoreFrame ==
    UNCHANGED <<now, trackerVars, cleanupVars, pipelineVars, tcTokenRest,
                tcClock, tcCall, tcSetCalls, tcBuilds>>

StoreTcTokensReturns(threw) == [op |-> "storeTcTokensFromIqResult", threw |-> threw]

\* the loop goes on from node i of call c: to the await of the resolver
\* for the next trusted_contact token, or to the end of the call
TcStoreGoesOn(c, nodes, i) ==
    IF NextTrusted(nodes, i) = 0
    THEN /\ tcStoreCalls' = [tcStoreCalls EXCEPT ![c] = [pc |-> "done"]]
         /\ ret' = StoreTcTokensReturns(FALSE)
    ELSE /\ tcStoreCalls' = [tcStoreCalls EXCEPT ![c] =
                                [pc |-> "getLIDForPN", nodes |-> nodes,
                                 i |-> NextTrusted(nodes, i),
                                 storageJid |-> NoJid, existingEntry |-> NoTcEntry]]
         /\ ret' = Void

\* the call throws what the store or the resolver threw
TcStoreThrows(c) ==
    /\ tcStoreCalls' = [tcStoreCalls EXCEPT ![c] = [pc |-> "done"]]
    /\ ret' = StoreTcTokensReturns(TRUE)

\* storeTcTokensFromIqResult({result, fallbackJid, keys, getLIDForPN}) up
\* to its first await
StoreTcTokensFromIqResult(c, nodes) ==
    /\ tcStoreCalls[c].pc = "idle"
    /\ \A d \in 1..(c - 1) : tcStoreCalls[d].pc # "idle"
    /\ TcStoreGoesOn(c, nodes, 1)
    /\ UNCHANGED tcTokens
    /\ TcStoreFrame

\* resolveTcTokenJid settles: keys.get is called for the storage jid
TcStoreJidResolved(c, lid, ok) ==
    /\ tcStoreCalls[c].pc = "getLIDForPN"
    /\ IF ok
       THEN /\ tcStoreCalls' = [tcStoreCalls EXCEPT
                                  ![c].pc = "get",
                                  ![c].storageJid = resolveTcTokenJid(PnJid("pn1", 0), lid)]
            /\ ret' = Void
       ELSE TcStoreThrows(c)
    /\ UNCHANGED tcTokens
    /\ TcStoreFrame

\* keys.get('tctoken', [storageJid]) settles: the token is skipped, or
\* keys.set is called with the merged entry
TcStoreRead(c, ok) ==
    /\ tcStoreCalls[c].pc = "get"
    /\ LET stc == tcStoreCalls[c]
           existingEntry == tcTokens[stc.storageJid]
           t == stc.nodes[stc.i].t
       IN IF ~ok THEN TcStoreThrows(c)
          ELSE IF IsOlderThanStored(existingEntry, t) \/ HasNoTimestamp(t)
          THEN TcStoreGoesOn(c, stc.nodes, stc.i + 1)
          ELSE /\ tcStoreCalls' = [tcStoreCalls EXCEPT ![c].pc = "set",
                                                       ![c].existingEntry = existingEntry]
               /\ ret' = Void
    /\ UNCHANGED tcTokens
    /\ TcStoreFrame

\* keys.set({tctoken: {[storageJid]: {...}}}) settles
TcStoreWritten(c, ok) ==
    /\ tcStoreCalls[c].pc = "set"
    /\ LET stc == tcStoreCalls[c]
       IN IF ok
          THEN /\ tcTokens' = [tcTokens EXCEPT ![stc.storageJid] =
                                  MergedEntry(stc.existingEntry, stc.nodes[stc.i].t)]
               /\ TcStoreGoesOn(c, stc.nodes, stc.i + 1)
          ELSE /\ TcStoreThrows(c)
               /\ UNCHANGED tcTokens
    /\ TcStoreFrame

\* an empty token store that was never asked anything
TcTokenIdle ==
    /\ tcTokens = [j \in TcStorageJids |-> NoTcEntry]
    /\ tcClock = TcEpoch
    /\ tcCall = NoTcCall
    /\ tcSetCalls = 0
    /\ tcBuilds = 0
    /\ tcStoreCalls = NoTcStoreCalls

\* a mapping store that was never asked anything, over an empty database
MappingIdle ==
    /\ mappingStore = NoMappings
    /\ lidCache = NoMappings
    /\ pnCache = NoReverse
    /\ pendingRequests = NoPending
    /\ lookups = <<>>
    /\ lookupCalls = <<>>
    /\ storeCall = NoStoreCall
    /\ lastStore = NoStore
    /\ storesMade = 0

----------------------------------------------------------------------------
(* The session migration (migrateSession): the session records of the       *)
(* devices of a user move from the phone-number address to the LID address  *)

\* FROM: `${pnUser}:${device}@s.whatsapp.net`, TO: `${lidUser}:${device}@lid`
PnAddr(device) == [user |-> "u1", domain |-> 0, device |-> device]

LidAddr(device) == [user |-> "u1", domain |-> 2, device |-> device]

NoLedger == [d \in Devices |-> -1]

NoMigration == [pc |-> "idle", uncached |-> {}, ops |-> {}]

NoMigrationResult == [valid |-> FALSE, ok |-> FALSE, migrated |-> 0, skipped |-> 0, total |-> 0]

\* the entry of a device is in the cache and has not outlived the TTL
Migrated(device) ==
    /\ migratedSessionCache[device] # -1
    /\ now - migratedSessionCache[device] <= MIGRATION_CACHE_TTL

\* operations that would copy the session and keep the old one
Moved_KeepsOld(store, ops) == store \cup {LidAddr(d) : d \in ops}

\* the store after the operations of the devices in ops: the session is
\* copied to the LID address and the old one is deleted
Moved(store, ops) ==
    (store \ {PnAddr(d) : d \in ops}) \cup {LidAddr(d) : d \in ops}

\* a store whose writes would not be one transaction: the rejection comes
\* after the operations of one device were applied
Aborted_Partial(store, ops) ==
    IF ops = {} THEN store ELSE Moved(store, {CHOOSE d \in ops : TRUE})

\* what the atomic transaction leaves of its operations when it rejects
Aborted(store, ops) == store

MigrationFrame ==
    UNCHANGED <<trackerVars, lidMapped, cleanupEnabled, trackerPresent, cleanupRunning,
                lastCleanupAt, call, pipelineVars, migrationRest>>

\* what a call returns: it is kept for the call that follows
MigrationReturns(valid, ok, migrated, total) ==
    /\ lastMigration' = [valid |-> valid, ok |-> ok, migrated |-> migrated,
                          skipped |-> 0, total |-> total]
    /\ ret' = [op |-> "migrateSession", valid |-> valid, ok |-> ok, migrated |-> migrated,
               skipped |-> 0, total |-> total, again |-> lastMigration.valid /\ lastMigration.ok]

\* migrateSession(from, to) up to its first await: only PN -> LID is
\* supported; the devices of the device list that the cache does not hold
\* are those whose sessions are read. A call made while one is in progress
\* is dropped.
MigrateSessionCall(fromPN) ==
    /\ migrationsMade < MaxMigrations
    /\ migrationsMade' = migrationsMade + 1
    /\ IF migration.pc # "idle" \/ ~fromPN \/ deviceList = {}
       THEN /\ MigrationReturns(FALSE, TRUE, 0, 0)
            /\ UNCHANGED migration
       ELSE /\ migration' = [pc |-> "read", uncached |-> {d \in deviceList : ~Migrated(d)},
                             ops |-> {}]
            /\ ret' = Void
            /\ UNCHANGED lastMigration
    /\ UNCHANGED <<now, sessionStore, deviceList, migratedSessionCache>>
    /\ MigrationFrame

\* the sessions of the devices were read: an operation is made for each
\* device that has one, and the transaction is sent; a read that rejects
\* ends the call
MigrateSessionsRead(ok) ==
    /\ migration.pc = "read"
    /\ IF ok
       THEN /\ migration' = [migration EXCEPT !.pc = "txn",
                                !.ops = {d \in migration.uncached : PnAddr(d) \in sessionStore}]
            /\ ret' = Void
            /\ UNCHANGED lastMigration
       ELSE /\ migration' = NoMigration
            /\ MigrationReturns(TRUE, FALSE, 0, 0)
    /\ UNCHANGED <<now, sessionStore, deviceList, migratedSessionCache, migrationsMade>>
    /\ MigrationFrame

\* the transaction settles: every operation is applied, the migrated devices
\* enter the cache and the counts are returned; or it rejects
MigrateTransactionSettles(committed) ==
    /\ migration.pc = "txn"
    /\ IF committed
       THEN /\ sessionStore' = Moved(sessionStore, migration.ops)
            /\ migratedSessionCache' = [d \in Devices |->
                                           IF d \in migration.ops THEN now
                                           ELSE migratedSessionCache[d]]
            /\ MigrationReturns(TRUE, TRUE, Cardinality(migration.ops),
                                Cardinality(migration.ops))
       ELSE /\ sessionStore' = Aborted(sessionStore, migration.ops)
            /\ MigrationReturns(TRUE, FALSE, 0, Cardinality(migration.ops))
            /\ UNCHANGED migratedSessionCache
    /\ migration' = NoMigration
    /\ UNCHANGED <<now, deviceList, migrationsMade>>
    /\ MigrationFrame

\* more than the TTL of the migration cache goes by
MigrationCacheTtlPasses ==
    /\ now <= MIGRATION_CACHE_TTL
    /\ now' = now + MIGRATION_CACHE_TTL + 1
    /\ ret' = Void
    /\ UNCHANGED <<sessionStore, migrationVars>>
    /\ MigrationFrame

\* the hourly timer deletes the entries that have outlived the TTL
MigrationCacheCleanup ==
    /\ \E d \in Devices :
          migratedSessionCache[d] # -1 /\ now - migratedSessionCache[d] > MIGRATION_CACHE_TTL
    /\ migratedSessionCache' = [d \in Devices |->
                                  IF now - migratedSessionCache[d] > MIGRATION_CACHE_TTL
                                  THEN -1 ELSE migratedSessionCache[d]]
    /\ ret' = Void
    /\ UNCHANGED <<now, sessionStore, deviceList, migration, lastMigration, migrationsMade>>
    /\ MigrationFrame

\* nothing was ever migrated and no device is known
MigrationIdle ==
    /\ deviceList = {}
    /\ migratedSessionCache = NoLedger
    /\ migration = NoMigration
    /\ lastMigration = NoMigrationResult
    /\ migrationsMade = 0

----------------------------------------------------------------------------
\* the cleanup scheduler was never started
SchedulerIdle ==
    /\ cleanupOnStartup = FALSE
    /\ initialTimeout = 0
    /\ cleanupInterval = 0
    /\ startupCleanupPromise = 0
    /\ timeouts = <<>>
    /\ intervals = <<>>
    /\ promises = <<>>

\* every component but one is as its constructor leaves it
IdleExcept(component) ==
    /\ IF component = "scheduler" THEN TRUE ELSE SchedulerIdle
    /\ IF component = "sync" THEN TRUE ELSE SyncIdle
    /\ IF component = "mapping" THEN TRUE ELSE MappingIdle
    /\ IF component = "migration" THEN TRUE ELSE MigrationIdle
    /\ IF component = "merge" THEN TRUE ELSE MergeIdle
    /\ IF component = "buffer" THEN TRUE ELSE BufferIdle
    /\ IF component = "ack" THEN TRUE ELSE AckIdle
    /\ IF component = "tctoken" THEN TRUE ELSE TcTokenIdle
    /\ IF component = "corrupted" THEN TRUE ELSE CorruptedIdle

ServicesIdle == IdleExcept("none")

\* a cleanup manager that was never used, over an empty session store
CleanupAtRest ==
    /\ sessionStore = {}
    /\ lidMapped = {}
    /\ cleanupEnabled = TRUE
    /\ trackerPresent = TRUE
    /\ cleanupRunning = FALSE
    /\ lastCleanupAt = 0
    /\ call = [c \in Callers |-> IdleCall]

CleanupIdle ==
    /\ sessionStore = {}
    /\ lidMapped = {}
    /\ cleanupEnabled = TRUE
    /\ trackerPresent = TRUE
    /\ cleanupRunning = FALSE
    /\ lastCleanupAt = 0
    /\ call = [c \in Callers |-> IdleCall]
    /\ dec = DecIdle
    /\ ServicesIdle

\* what an earlier run of the tracker may have left in the store
PriorRunStores == {EmptyMap, FlushUpdates([j \in {PnJid("u1", 0)} |-> 1])}

TrackerInit ==
    /\ now = 1
    /\ ret = Void
    /\ activityStore \in PriorRunStores
    /\ trackerEnabled \in BOOLEAN
    /\ activityCache = EmptyMap
    /\ isDirty = FALSE
    /\ stats = [totalUpdates |-> 0, totalFlushes |-> 0, lastFlushAt |-> 0, cacheSize |-> 0]
    /\ fpc = [f \in Flushers |-> "idle"]
    /\ fupdates = [f \in Flushers |-> EmptyMap]
    /\ gpc = "idle"
    /\ gread = Rejected
    /\ flushInterval = FALSE
    /\ timers = 0
    /\ forigin = [f \in Flushers |-> "call"]
    /\ CleanupIdle

TrackerNext ==
    \/ \E j \in Jids : RecordActivity(j)
    \/ \E j \in Jids : GetLastActivity(j)
    \/ GetAllCall
    \/ GetAllResume
    \/ \E f \in Flushers : FlushCall(f)
    \/ \E f \in Flushers : FlushCommitted(f)
    \/ \E f \in Flushers : FlushFailed(f)
    \/ Tick

TrackerSpec == TrackerInit /\ [][TrackerNext]_vars

\* The tracker with its start()/stop() lifecycle and its interval timer, at
\* the instant of construction: every operation of the returned object, the
\* timer callback, and the settling of the store calls.
LifecycleNext ==
    \/ \E j \in Jids : RecordActivity(j)
    \/ \E j \in Jids : GetLastActivity(j)
    \/ GetAllCall
    \/ GetAllResume
    \/ \E f \in Flushers : FlushCall(f)
    \/ \E f \in Flushers : FlushCommitted(f)
    \/ \E f \in Flushers : FlushFailed(f)
    \/ \E f \in Flushers : Start(f)
    \/ \E f \in Flushers : TimerFire(f)
    \/ \E f \in Flushers : Stop(f)

LifecycleSpec == TrackerInit /\ [][LifecycleNext]_vars

\* A cleanup scheduler constructed over a store that already holds session
\* records, at any instant of Clock. The identities in `active` were active at
\* instant 1, and that activity is either all flushed or all still buffered;
\* without a tracker nothing was recorded.
CleanupInit ==
    /\ now \in Clock
    /\ ret = Void
    /\ trackerEnabled = TRUE
    /\ trackerPresent \in BOOLEAN
    /\ \E active \in SUBSET Jids : \E flushed \in BOOLEAN :
          /\ ~trackerPresent => active = {}
          /\ active = {} => flushed
          /\ activityStore = IF flushed THEN FlushUpdates([j \in active |-> 1]) ELSE EmptyMap
          /\ activityCache = IF flushed THEN EmptyMap ELSE [j \in active |-> 1]
          /\ isDirty = ~flushed
          /\ stats = [totalUpdates |-> Cardinality(active),
                      totalFlushes |-> IF flushed /\ active # {} THEN 1 ELSE 0,
                      lastFlushAt |-> IF flushed /\ active # {} THEN 1 ELSE 0,
                      cacheSize |-> IF flushed THEN 0 ELSE Cardinality(active)]
    /\ fpc = [f \in Flushers |-> "idle"]
    /\ fupdates = [f \in Flushers |-> EmptyMap]
    /\ gpc = "idle"
    /\ gread = Rejected
    /\ flushInterval = FALSE
    /\ timers = 0
    /\ forigin = [f \in Flushers |-> "call"]
    /\ sessionStore \in {ss \in SUBSET SessionAddrs : Cardinality(ss) <= MaxSessions}
    /\ lidMapped = {}
    /\ cleanupEnabled \in BOOLEAN
    /\ cleanupRunning = FALSE
    /\ lastCleanupAt = 0
    /\ call = [c \in Callers |-> IdleCall]
    /\ dec = DecIdle
    /\ ServicesIdle

CleanupNext ==
    \/ \E c \in Callers : CleanupCall(c)
    \/ \E c \in Callers : CleanupKeysResume(c)
    \/ \E c \in Callers : CleanupActivitiesResume(c)
    \/ \E c \in Callers : \E a \in SessionAddrs : \E t \in BOOLEAN : CleanupClassify(c, a, t)
    \/ \E c \in Callers : CleanupDeleteCommitted(c)
    \/ \E c \in Callers : CleanupDeleteFailed(c)
    \/ \E u \in Users : LearnMapping(u)

CleanupSpec == CleanupInit /\ [][CleanupNext]_vars

\* decrypt() is called on a decoded stanza: any author, addressing attributes
\* and autoCleanCorrupted, over a mapping store that knows the author's LID or not
DecryptInit ==
    /\ now = 1
    /\ ret = Void
    /\ activityStore = EmptyMap
    /\ trackerEnabled = TRUE
    /\ activityCache = EmptyMap
    /\ isDirty = FALSE
    /\ stats = [totalUpdates |-> 0, totalFlushes |-> 0, lastFlushAt |-> 0, cacheSize |-> 0]
    /\ fpc = [f \in Flushers |-> "idle"]
    /\ fupdates = [f \in Flushers |-> EmptyMap]
    /\ gpc = "idle"
    /\ gread = Rejected
    /\ flushInterval = FALSE
    /\ timers = 0
    /\ forigin = [f \in Flushers |-> "call"]
    /\ sessionStore = {}
    /\ lidMapped \in SUBSET Users
    /\ cleanupEnabled = TRUE
    /\ trackerPresent = TRUE
    /\ cleanupRunning = FALSE
    /\ lastCleanupAt = 0
    /\ call = [c \in Callers |-> IdleCall]
    /\ \E author \in Senders : \E attrs \in StanzaAttrs : \E auto \in BOOLEAN :
          dec = [DecIdle EXCEPT !.pc = "loop", !.author = author, !.attrs = attrs,
                                !.autoCleanCorrupted = auto]
    /\ ServicesIdle

DecryptNext ==
    \/ \E child \in Children : DecryptNextChild(child)
    \/ \E answers \in BOOLEAN : DecryptLookupSettles(answers)
    \/ \E ok \in BOOLEAN : DecryptStoreSettles(ok)
    \/ \E ok \in BOOLEAN : DecryptMigrateSettles(ok)
    \/ \E outcome \in CipherErrors \cup {NoError} : \E decodes \in BOOLEAN :
          DecryptCipher(outcome, decodes)
    \/ \E ok \in BOOLEAN : DecryptCleanupSettles(ok)
    \/ DecryptEndLoop

DecryptSpec == DecryptInit /\ [][DecryptNext]_vars

\* a tracker just constructed over an empty store
TrackerIdle ==
    /\ activityStore = EmptyMap
    /\ trackerEnabled = TRUE
    /\ activityCache = EmptyMap
    /\ isDirty = FALSE
    /\ stats = [totalUpdates |-> 0, totalFlushes |-> 0, lastFlushAt |-> 0, cacheSize |-> 0]
    /\ fpc = [f \in Flushers |-> "idle"]
    /\ fupdates = [f \in Flushers |-> EmptyMap]
    /\ gpc = "idle"
    /\ gread = Rejected
    /\ flushInterval = FALSE
    /\ timers = 0
    /\ forigin = [f \in Flushers |-> "call"]

\* A cleanup manager just constructed, with or without cleanupOnStartup, over
\* a store that is empty or holds the record of one orphan LID session.
SchedulerInit ==
    /\ now = 1
    /\ ret = Void
    /\ TrackerIdle
    /\ sessionStore \in {{}, {[user |-> "u1", domain |-> 2, device |-> 0]}}
    /\ lidMapped = {}
    /\ cleanupEnabled \in BOOLEAN
    /\ trackerPresent \in BOOLEAN
    /\ cleanupRunning = FALSE
    /\ lastCleanupAt = 0
    /\ call = [c \in Callers |-> IdleCall]
    /\ dec = DecIdle
    /\ cleanupOnStartup \in BOOLEAN
    /\ initialTimeout = 0
    /\ cleanupInterval = 0
    /\ startupCleanupPromise = 0
    /\ timeouts = <<>>
    /\ intervals = <<>>
    /\ promises = <<>>
    /\ IdleExcept("scheduler")

SchedulerNext ==
    \/ SchedulerStart
    \/ \E p \in 1..MaxStarts : StartupSettles(p)
    \/ \E h \in 1..MaxStarts : TimeoutFires(h)
    \/ \E h \in 1..MaxStarts : TimeoutResumes(h)
    \/ \E k \in 1..MaxStarts : IntervalFires(k)
    \/ SchedulerStop
    \/ \E c \in Callers : CleanupKeysResume(c)
    \/ \E c \in Callers : CleanupActivitiesResume(c)
    \/ \E c \in Callers : \E a \in SessionAddrs : \E t \in BOOLEAN : CleanupClassify(c, a, t)
    \/ \E c \in Callers : CleanupDeleteCommitted(c)
    \/ \E c \in Callers : CleanupDeleteFailed(c)

SchedulerSpec == SchedulerInit /\ [][SchedulerNext]_vars

\* the callbacks of the timers and the reactions of the promises, which the
\* event loop runs once they are due
TimerProgress ==
    \/ \E p \in 1..MaxStarts : StartupSettles(p)
    \/ \E h \in 1..MaxStarts : TimeoutFires(h)
    \/ \E h \in 1..MaxStarts : TimeoutResumes(h)
    \/ \E k \in 1..MaxStarts : IntervalFires(k)

\* the answers of the key store and of the tracker to a run in progress
CleanupProgress ==
    \/ \E c \in Callers : CleanupKeysResume(c)
    \/ \E c \in Callers : CleanupActivitiesResume(c)
    \/ \E c \in Callers : \E a \in SessionAddrs : \E t \in BOOLEAN : CleanupClassify(c, a, t)
    \/ \E c \in Callers : CleanupDeleteCommitted(c)
    \/ \E c \in Callers : CleanupDeleteFailed(c)

\* start() and stop() are called from outside and may never be called; the
\* timers fire and the store answers
SchedulerFairSpec ==
    SchedulerInit /\ [][SchedulerNext]_vars /\ WF_vars(TimerProgress) /\ WF_vars(CleanupProgress)

\* A chats socket just made, over a key store that holds the version of any
\* of the collections (an earlier session) or none.
SyncInit ==
    /\ now = 1
    /\ ret = Void
    /\ TrackerIdle
    /\ CleanupAtRest
    /\ dec = DecIdle
    /\ IdleExcept("sync")
    /\ syncState = "Connecting"
    /\ blockedCollections = {}
    /\ awaitingSyncTimeout = FALSE
    /\ versions \in {NoVersions, [n \in Collections |-> 1]}
    /\ resyncQueue = <<>>
    /\ rs = IdleResync
    /\ resyncsMade = 0

SyncNext ==
    \/ \E name \in Collections : ResyncCall({name})
    \/ ResyncBegin
    \/ \E ok \in BOOLEAN : ResyncQuery(ok)
    \/ \E name \in Collections : \E outcome \in {"done", "more"} \cup SyncErrors :
          ResyncDecode(name, outcome)
    \/ \E ok \in BOOLEAN : ResyncCommit(ok)
    \/ \E hasKeyId \in BOOLEAN : CredsUpdate(hasKeyId)
    \/ \E connection \in {"open", "close"} : \E received \in BOOLEAN :
          \E isReconnection \in BOOLEAN : \E willSyncHistory \in BOOLEAN :
             ConnectionUpdate(connection, received, isReconnection, willSyncHistory)
    \/ AwaitingSyncTimeoutFires
    \/ \E shouldProcess \in BOOLEAN : UpsertHistoryMessage(shouldProcess)
    \/ UpsertKeyShare

SyncSpec == SyncInit /\ [][SyncNext]_vars

\* The steps that the socket takes by itself once they are possible: the work
\* of a queued resyncAppState call (the store, the server and the decoder
\* answer) and the callback of the AwaitingInitialSync timer. The messages,
\* the connection updates and the creds updates come from outside and may
\* never come.
SyncProgress ==
    \/ ResyncBegin
    \/ \E ok \in BOOLEAN : ResyncQuery(ok)
    \/ \E name \in Collections : \E outcome \in {"done", "more"} \cup SyncErrors :
          ResyncDecode(name, outcome)
    \/ \E ok \in BOOLEAN : ResyncCommit(ok)
    \/ AwaitingSyncTimeoutFires

SyncFairSpec == SyncInit /\ [][SyncNext]_vars /\ WF_vars(SyncProgress)

\* resyncAppState alone: calls for any set of collections and their work
ResyncNext ==
    \/ \E collections \in SUBSET Collections : ResyncCall(collections)
    \/ ResyncBegin
    \/ \E ok \in BOOLEAN : ResyncQuery(ok)
    \/ \E name \in Collections : \E outcome \in {"done", "more"} \cup SyncErrors :
          ResyncDecode(name, outcome)
    \/ \E ok \in BOOLEAN : ResyncCommit(ok)

ResyncFairSpec == SyncInit /\ [][ResyncNext]_vars /\ WF_vars(SyncProgress)

\* everything but the named component is as its constructor leaves it
OthersAtRest(component) ==
    /\ now = 1
    /\ ret = Void
    /\ TrackerIdle
    /\ CleanupAtRest
    /\ dec = DecIdle
    /\ IdleExcept(component)

\* A mapping store just made, over a database that holds the LID of one of
\* the phone numbers (an earlier session) or of none.
LookupInit ==
    /\ OthersAtRest("mapping")
    /\ mappingStore \in {NoMappings, [NoMappings EXCEPT !["pn1"] = "lidA"]}
    /\ lidCache = NoMappings
    /\ pnCache = NoReverse
    /\ pendingRequests = NoPending
    /\ lookups = <<>>
    /\ lookupCalls = <<>>
    /\ storeCall = NoStoreCall
    /\ lastStore = NoStore
    /\ storesMade = 0

LookupNext ==
    \/ \E key \in LookupKeys : GetLIDForPNCall(key)
    \/ \E r \in 1..MaxLookups : \E ok \in BOOLEAN : LookupDbSettles(r, ok)
    \/ \E r \in 1..MaxLookups : \E answer \in LidAnswers \cup {"none"} : LookupUSyncSettles(r, answer)
    \/ \E c \in 1..MaxLookups : LookupReturns(c)

LookupSpec == LookupInit /\ [][LookupNext]_vars

\* A mapping store just made, over a database that holds the LID of one of
\* the phone numbers or of none; nothing is cached yet.
StoreInit ==
    /\ OthersAtRest("mapping")
    /\ mappingStore \in {NoMappings, [NoMappings EXCEPT !["pn1"] = "lidA"]}
    /\ lidCache = NoMappings
    /\ pnCache = NoReverse
    /\ pendingRequests = NoPending
    /\ lookups = <<>>
    /\ lookupCalls = <<>>
    /\ storeCall = NoStoreCall
    /\ lastStore = NoStore
    /\ storesMade = 0

StoreNext ==
    \/ \E batch \in Batches : StoreMappingsCall(batch)
    \/ StoreMappingsFetched
    \/ \E failed \in SUBSET Mappings : StoreMappingsCommitted(failed)

StoreSpec == StoreInit /\ [][StoreNext]_vars

\* A chats socket over a mapping store just made: no event was handled yet.
MergeInit ==
    /\ OthersAtRest("merge")
    /\ mergeHandler = NoHandler
    /\ emitted = NothingEmitted

MergeNext ==
    \/ \E mappings \in MappingEvents : LidMappingUpdate(mappings)
    \/ StoreMappingsFetched
    \/ \E failed \in SUBSET Mappings : StoreMappingsCommitted(failed)
    \/ StoreMappingsThrows
    \/ LidMappingStored

MergeSpec == MergeInit /\ [][MergeNext]_vars

\* A socket just made: the offline buffer was not started.
BufferInit ==
    /\ OthersAtRest("buffer")
    /\ BufferIdle

BufferNext ==
    \/ StartBuffer
    \/ OfflineBufferTimeoutFires
    \/ OnOffline
    \/ OnClose
    \/ BufferTimePasses

BufferSpec == BufferInit /\ [][BufferNext]_vars

\* A receiving socket just made: no bad ack was handled.
AckInit ==
    /\ OthersAtRest("ack")
    /\ AckIdle

AckNext ==
    \/ \E attrs \in AckAttrs : HandleBadAck(attrs)
    \/ \E c \in 1..MaxAcks : \E found \in BOOLEAN : AckMessageFetched(c, found)
    \/ \E c \in 1..MaxAcks : AckRelayCalled(c)
    \/ \E c \in 1..MaxAcks : \E ok \in BOOLEAN : AckRelaySettles(c, ok)
    \/ \E key \in {RetryKey(a) : a \in AckAttrs} :
          \E due \in {t.due : t \in retryKeyTimers} : RetryKeyExpires([key |-> key, due |-> due])
    \/ AckTimePasses

AckSpec == AckInit /\ [][AckNext]_vars

\* A key store that holds the tokens of an earlier session, of any age.
TcTokenInit ==
    /\ OthersAtRest("tctoken")
    /\ tcTokens \in [TcStorageJids -> TcEntries]
    /\ tcClock = TcEpoch
    /\ tcCall = NoTcCall
    /\ tcSetCalls = 0
    /\ tcBuilds = 0
    /\ tcStoreCalls = NoTcStoreCalls

TcTokenNext ==
    \/ \E jid \in TcCallerJids : \E baseContent \in BaseContents :
          \E withResolver \in BOOLEAN : BuildTcTokenFromJid(jid, baseContent, withResolver)
    \/ \E lid \in {LidJid("lidA"), NoJid} : \E ok \in BOOLEAN : TcTokenJidResolved(lid, ok)
    \/ \E ok \in BOOLEAN : TcTokenRead(ok)
    \/ \E ok \in BOOLEAN : TcTokenDeleted(ok)
    \/ TcBucketPasses

TcTokenSpec == TcTokenInit /\ [][TcTokenNext]_vars

\* A key store that holds, under each storage jid, no token or a token of an
\* earlier bucket, with or without the time a token was last sent.
TcStoreInit ==
    /\ OthersAtRest("tctoken")
    /\ tcTokens \in [TcStorageJids ->
                        {NoTcEntry}
                        \cup [stored : {TRUE}, token : {"tok"},
                              timestamp : {Seconds(TC_TOKEN_BUCKET_DURATION - 1)},
                              senderTimestamp : {NoTimestamp, Seconds(TcEpoch)}]]
    /\ tcClock = TcEpoch
    /\ tcCall = NoTcCall
    /\ tcSetCalls = 0
    /\ tcBuilds = 0
    /\ tcStoreCalls = NoTcStoreCalls

TcStoreNext ==
    \/ \E c \in 1..MaxTcStores : \E nodes \in IqResults : StoreTcTokensFromIqResult(c, nodes)
    \/ \E c \in 1..MaxTcStores : \E lid \in {LidJid("lidA"), NoJid} : \E ok \in BOOLEAN :
          TcStoreJidResolved(c, lid, ok)
    \/ \E c \in 1..MaxTcStores : \E ok \in BOOLEAN : TcStoreRead(c, ok)
    \/ \E c \in 1..MaxTcStores : \E ok \in BOOLEAN : TcStoreWritten(c, ok)

TcStoreSpec == TcStoreInit /\ [][TcStoreNext]_vars

\* A repository that holds sessions for some identities of two users.
CorruptedInit ==
    /\ OthersAtRest("corrupted")
    /\ signalSessions \in SUBSET SessionIdentities
    /\ corruptedCall = NoCorruptedCall

CorruptedNext ==
    \/ \E jid \in CorruptedJids : CleanupCorruptedSession(jid)
    \/ \E ok \in BOOLEAN : DeleteSessionSettles(ok)

CorruptedSpec == CorruptedInit /\ [][CorruptedNext]_vars

\* A user of whom some devices are known, with session records at the
\* phone-number addresses of some devices and at the LID addresses of others:
\* nothing was migrated by this process yet.
MigrationInit ==
    /\ now = 1
    /\ ret = Void
    /\ TrackerIdle
    /\ \E pn \in SUBSET Devices : \E lid \in SUBSET (Devices \ pn) :
          sessionStore = {PnAddr(d) : d \in pn} \cup {LidAddr(d) : d \in lid}
    /\ lidMapped = {}
    /\ cleanupEnabled = TRUE
    /\ trackerPresent = TRUE
    /\ cleanupRunning = FALSE
    /\ lastCleanupAt = 0
    /\ call = [c \in Callers |-> IdleCall]
    /\ dec = DecIdle
    /\ IdleExcept("migration")
    /\ deviceList \in SUBSET Devices
    /\ migratedSessionCache = NoLedger
    /\ migration = NoMigration
    /\ lastMigration = NoMigrationResult
    /\ migrationsMade = 0

MigrationNext ==
    \/ \E fromPN \in BOOLEAN : MigrateSessionCall(fromPN)
    \/ \E ok \in BOOLEAN : MigrateSessionsRead(ok)
    \/ \E committed \in BOOLEAN : MigrateTransactionSettles(committed)
    \/ MigrationCacheTtlPasses
    \/ MigrationCacheCleanup

MigrationSpec == MigrationInit /\ [][MigrationNext]_vars

----------------------------------------------------------------------------
(* Properties of the session cleanup, checked under CleanupSpec *)

IsLidAddr(a) == a.domain = 2 \/ a.domain = 6

\* the identity under which runCleanup looks up the activity of a session key
LookupJid(a) == IF IsLidAddr(a) THEN LidJid(a.user) ELSE PnJid(a.user, a.device)

\* this step is the loop iteration of call c for session key a
Classifies(c, a) ==
    /\ call[c].pc = "classify"
    /\ a \in call[c].pending
    /\ a \notin call'[c].pending

\* the statistics of call c after the step, also when the step returned them
StatsAfter(c) == IF call'[c].pc = "idle" THEN ret'.stats ELSE call'[c].stats

\* the iteration of this step got an answer from getPNForLID
LookupAnswered(c) == StatsAfter(c).errors = call[c].stats.errors

\* the iteration of this step marked a for deletion
Selects(c, a) == a \in DOMAIN call'[c].reasons

\* the activity timestamp the iteration for a sees (-1: none)
ActivitySeen(c, a) == MapGet(call[c].activity, LookupJid(a))

OrphanMs == CfgLidOrphanHours * HOUR_MS
SecondaryMs == CfgSecondaryDeviceInactiveDays * DAY_MS
PrimaryMs == CfgPrimaryDeviceInactiveDays * DAY_MS

\* C1 as stated: runCleanup never selects for deletion a LID session record
\* (domain 2 or 6) for which getPNForLID returns a mapping, whatever its device
\* index and however old or absent its last activity.
C1_NeverSelectsMappedLid ==
    [][\A c \in Callers : \A a \in SessionAddrs :
          (Classifies(c, a) /\ LookupAnswered(c) /\ IsLidAddr(a) /\ a.user \in lidMapped)
              => ~Selects(c, a)]_vars

\* C1 amended: a LID session record for which getPNForLID returns a mapping is
\* never selected as an orphan and never selected without an activity
\* timestamp; it is selected exactly when it has one and its inactivity
\* exceeds the secondary-device threshold (device > 0) or the primary-device
\* threshold (device 0).
C1_MappedLidOnlyByDeviceRules ==
    [][\A c \in Callers : \A a \in SessionAddrs :
          (Classifies(c, a) /\ LookupAnswered(c) /\ IsLidAddr(a) /\ a.user \in lidMapped)
              => /\ Selects(c, a) <=>
                       /\ ActivitySeen(c, a) > 0
                       /\ now - ActivitySeen(c, a) >
                             (IF a.device = 0 THEN PrimaryMs ELSE SecondaryMs)
                 /\ Selects(c, a) =>
                       call'[c].reasons[a] \in {"Secondary device inactive",
                                                "Primary device inactive"}]_vars

\* a mapped LID record, inactive for longer than the orphan threshold but not
\* longer than its device threshold, was classified and kept by a run in
\* which no lookup failed
C1_Witness ==
    \E c \in Callers : \E a \in call[c].keys :
        /\ call[c].pc = "deleting"
        /\ call[c].stats.errors = 0
        /\ IsLidAddr(a) /\ a.device = 0 /\ a.user \in lidMapped
        /\ a \notin DOMAIN call[c].reasons
        /\ MapGet(call[c].activity, LidJid(a.user)) = 1
        /\ now - 1 > OrphanMs

\* C2: at most one runCleanup is past its guard at any time; a runCleanup
\* invoked while cleanupRunning is true returns all-zero statistics without
\* reading the session store and without deleting anything, and leaves no
\* pending work behind (it is dropped, not queued).
C2_ReentrantCallDropped ==
    [][/\ Cardinality({c \in Callers : call'[c].pc # "idle"}) <= 1
       /\ \A c \in Callers :
            (cleanupRunning /\ call[c].pc = "idle" /\ ret'.op = "runCleanup" /\ ret'.by = c)
               => /\ ret'.stats = ZeroStats
                  /\ ret'.reads = 0 /\ ret'.txns = 0 /\ ret'.sets = 0
                  /\ sessionStore' = sessionStore
                  /\ call' = call
                  /\ cleanupRunning']_vars

\* a second runCleanup has just returned while the first is still classifying
C2_Witness ==
    /\ ret.op = "runCleanup" /\ ret.guarded /\ cleanupEnabled
    /\ cleanupRunning
    /\ \E c \in Callers : c # ret.by /\ call[c].pc = "classify"

\* C3: all keys selected by one runCleanup are deleted by a single keys.set
\* inside a single keys.transaction; if the transaction fails, errors is
\* incremented, totalDeleted stays 0 and every targeted record is still in the
\* store.
C3_AtomicDeletion ==
    [][\A c \in Callers :
          (call[c].pc = "deleting" /\ call'[c].pc = "idle")
             => /\ ret'.txns = 1 /\ ret'.sets <= 1
                /\ DOMAIN call[c].reasons \subseteq sessionStore
                /\ IF ret'.committed
                     THEN /\ ret'.sets = 1
                          /\ ret'.batch = DOMAIN call[c].reasons
                          /\ sessionStore' = sessionStore \ DOMAIN call[c].reasons
                          /\ ret'.stats.totalDeleted = Cardinality(DOMAIN call[c].reasons)
                          /\ ret'.stats.errors = call[c].stats.errors
                     ELSE /\ ret'.stats.errors = call[c].stats.errors + 1
                          /\ ret'.stats.totalDeleted = 0
                          /\ sessionStore' = sessionStore
                          /\ DOMAIN call[c].reasons \subseteq sessionStore']_vars

\* a run that had marked two records returned after its transaction failed
C3_Witness ==
    /\ ret.op = "runCleanup" /\ ~ret.guarded /\ ~ret.committed
    /\ ret.txns = 1 /\ ret.sets = 1
    /\ Cardinality(ret.batch) = 2
    /\ ret.batch \subseteq sessionStore

\* C4: an orphan LID record (no reverse mapping) with no activity entry is
\* selected by the run that scans it, a phone-number record (primary or
\* secondary device) with no activity entry is never selected; also without a
\* tracker.
C4_UntrackedOrphanGoesAddressableStays ==
    [][\A c \in Callers : \A a \in SessionAddrs :
          (Classifies(c, a) /\ LookupAnswered(c) /\ ActivitySeen(c, a) = -1)
             => /\ (IsLidAddr(a) /\ a.user \notin lidMapped) => Selects(c, a)
                /\ ~IsLidAddr(a) => ~Selects(c, a)]_vars

\* without a tracker, a run has classified an untracked orphan and an
\* untracked phone-number record: the first is marked, the second is not
C4_Witness ==
    \E c \in Callers : \E a, b \in call[c].keys :
        /\ call[c].pc = "deleting"
        /\ ~trackerPresent
        /\ IsLidAddr(a)
        /\ a \in DOMAIN call[c].reasons
        /\ call[c].reasons[a] = "LID orphan, no activity tracked"
        /\ ~IsLidAddr(b) /\ b \notin DOMAIN call[c].reasons

\* the retention tier of a record: its configured threshold in milliseconds
TierMs(a) ==
    IF IsLidAddr(a) /\ a.user \notin lidMapped THEN OrphanMs
    ELSE IF a.device # 0 THEN SecondaryMs
    ELSE PrimaryMs

\* C5: in each retention tier a record whose inactivity equals the configured
\* threshold is retained, and one whose inactivity exceeds it by one
\* millisecond is selected.
C5_StrictThreshold ==
    [][\A c \in Callers : \A a \in SessionAddrs :
          (Classifies(c, a) /\ LookupAnswered(c) /\ ActivitySeen(c, a) > 0)
             => /\ (now - ActivitySeen(c, a) = TierMs(a)) => ~Selects(c, a)
                /\ (now - ActivitySeen(c, a) = TierMs(a) + 1) => Selects(c, a)]_vars

\* one millisecond past the primary-device threshold a primary record is
\* marked, while an orphan far past its own threshold is marked too
C5_Witness ==
    \E c \in Callers : \E a \in DOMAIN call[c].reasons :
        /\ call[c].pc = "deleting"
        /\ a.device = 0 /\ ~IsLidAddr(a)
        /\ call[c].reasons[a] = "Primary device inactive"
        /\ now - MapGet(call[c].activity, LookupJid(a)) = PrimaryMs + 1

----------------------------------------------------------------------------
(* Claims about the session activity tracker, checked under TrackerSpec *)

\* the flush() call f passes its early return and reaches its transaction
FlushStarts(f) == fpc[f] = "idle" /\ fpc'[f] = "txn"

\* the flush() call f returns to its caller with the given outcome
FlushReturns(f, outcome) ==
    ret'.op = "flush" /\ ret'.by = f /\ ret'.outcome = outcome

\* updates holds one record per buffered identity, carrying its buffered timestamp
CoversBuffer(updates, cache) ==
    /\ DOMAIN updates = {ActivityKey(j) : j \in DOMAIN cache}
    /\ \A j \in DOMAIN cache : updates[ActivityKey(j)].lastActivityAt = cache[j]

\* C6: when the transaction of a flush() fails, the call returns normally and
\* leaves the buffer, the dirty flag, totalFlushes and the store as they were;
\* if the buffer still holds entries the dirty flag is still set afterwards, so
\* the next flush() does not skip, and a flush() that starts its transaction
\* always offers every buffered entry with its buffered timestamp.
C6_FailedFlushKeepsBuffer ==
    [][\A f \in Flushers :
          /\ (fpc[f] = "txn" /\ FlushReturns(f, "failed"))
                => /\ activityCache' = activityCache
                   /\ isDirty' = isDirty
                   /\ stats'.totalFlushes = stats.totalFlushes
                   /\ stats'.cacheSize = stats.cacheSize
                   /\ activityStore' = activityStore
                   /\ fpc'[f] = "idle"
                   /\ (activityCache # EmptyMap)
                         => (trackerEnabled' /\ isDirty' /\ activityCache' # EmptyMap)
          /\ FlushStarts(f) => CoversBuffer(fupdates'[f], activityCache)]_vars

\* a flush() has just failed while two identities were buffered: both are
\* still buffered, the flag is set and nothing was persisted or counted
C6_Witness ==
    /\ ret.op = "flush" /\ ret.outcome = "failed"
    /\ Cardinality(DOMAIN activityCache) = 2
    /\ isDirty
    /\ stats.totalFlushes = 0
    /\ activityStore = EmptyMap

\* C7: a flush() that starts a transaction does so only with a dirty,
\* non-empty buffer and builds one record per buffered identity with its
\* buffered timestamp; when that transaction commits, exactly those records
\* are in the store (the other records untouched), it was the call's only
\* transaction and the buffer is empty; a flush() that returns without
\* awaiting (clean or empty buffer) has started no transaction and written
\* nothing.
C7_FlushWritesWholeBuffer ==
    [][\A f \in Flushers :
          /\ FlushStarts(f)
                => /\ isDirty /\ activityCache # EmptyMap
                   /\ CoversBuffer(fupdates'[f], activityCache)
          /\ (fpc[f] = "txn" /\ FlushReturns(f, "ok"))
                => /\ ret'.txns = 1
                   /\ ret'.written = fupdates[f]
                   /\ DOMAIN activityStore' = DOMAIN activityStore \cup DOMAIN fupdates[f]
                   /\ \A k \in DOMAIN activityStore' :
                         activityStore'[k] = IF k \in DOMAIN fupdates[f]
                                               THEN fupdates[f][k]
                                               ELSE activityStore[k]
                   /\ activityCache' = EmptyMap
                   /\ stats'.cacheSize = 0
                   /\ ~isDirty'
          /\ (fpc[f] = "idle" /\ trackerEnabled /\ (~isDirty \/ activityCache = EmptyMap)
                /\ ret'.op = "flush" /\ ret'.by = f)
                => /\ ret'.outcome = "skipped" /\ ret'.txns = 0
                   /\ fpc'[f] = "idle"
                   /\ activityStore' = activityStore
                   /\ activityCache' = activityCache]_vars

\* a flush() has just committed two buffered identities: both are persisted
\* with the timestamps they had in the buffer and the buffer is empty
C7_Witness ==
    /\ ret.op = "flush" /\ ret.outcome = "ok" /\ ret.txns = 1
    /\ Cardinality(DOMAIN ret.written) = 2
    /\ \A k \in DOMAIN ret.written : k \in DOMAIN activityStore /\ activityStore[k] = ret.written[k]
    /\ activityCache = EmptyMap

\* C8: with tracking enabled, when its store read succeeds getAllActivities()
\* returns one timestamp for every identity in the records it read or in the
\* buffer and for no other identity; an identity in both gets the buffer's
\* timestamp, one only persisted gets the persisted lastActivityAt.
C8_MergeBufferWins ==
    (trackerEnabled /\ ret.op = "getAllActivities" /\ ret.ok)
        => /\ DOMAIN ret.value = {StripPrefix(k) : k \in DOMAIN ret.read}
                                    \cup DOMAIN activityCache
           /\ \A j \in DOMAIN ret.value :
                 ret.value[j] = IF j \in DOMAIN activityCache
                                  THEN activityCache[j]
                                  ELSE ret.read[ActivityKey(j)].lastActivityAt

\* getAllActivities() has just returned while one identity was persisted with
\* an older timestamp than the one buffered for it
C8_Witness ==
    /\ trackerEnabled /\ ret.op = "getAllActivities" /\ ret.ok
    /\ ret.read = activityStore
    /\ \E j \in DOMAIN activityCache :
          /\ ActivityKey(j) \in DOMAIN ret.read
          /\ ret.read[ActivityKey(j)].lastActivityAt < activityCache[j]
          /\ ret.value[j] = activityCache[j]

\* C9: when the store read of getAllActivities() fails, the call returns the
\* empty map, whatever the buffer holds.
C9_ReadFailureGivesEmptyMap ==
    (ret.op = "getAllActivities" /\ ~ret.ok) => ret.value = EmptyMap

\* getAllActivities() has just returned after a failed read while the buffer
\* held an entry
C9_Witness ==
    /\ ret.op = "getAllActivities" /\ ~ret.ok
    /\ trackerEnabled
    /\ activityCache # EmptyMap
    /\ ret.value = EmptyMap

\* C10: with tracking enabled, getLastActivity(jid) returns the buffered
\* timestamp without a store read when jid is buffered; otherwise it makes one
\* read and returns the persisted lastActivityAt, or absent when nothing is
\* persisted for jid or the read fails. A recordActivity call sets the entry
\* of its identity to the current time and leaves the other entries, and no
\* other step changes a buffered timestamp, so a buffered timestamp is that of
\* the latest call.
C10_CacheFirstThenStore ==
    [][/\ \A j \in Jids :
            (trackerEnabled /\ ret'.op = "getLastActivity" /\ ret'.jid = j)
               => IF j \in DOMAIN activityCache
                    THEN ret'.value = activityCache[j] /\ ret'.reads = 0
                    ELSE /\ ret'.reads = 1
                         /\ ret'.value =
                               IF ret'.ok /\ ActivityKey(j) \in DOMAIN activityStore
                                 THEN activityStore[ActivityKey(j)].lastActivityAt
                                 ELSE -1
       /\ IF stats'.totalUpdates # stats.totalUpdates
            THEN \E j \in Jids :
                    /\ DOMAIN activityCache' = DOMAIN activityCache \cup {j}
                    /\ activityCache'[j] = now
                    /\ \A x \in DOMAIN activityCache \ {j} :
                          activityCache'[x] = activityCache[x]
            ELSE \A x \in DOMAIN activityCache' :
                    x \in DOMAIN activityCache /\ activityCache'[x] = activityCache[x]]_vars

\* after two recordActivity calls for one identity at different instants and
\* no flush, getLastActivity has just returned the later instant without a read
C10_Witness ==
    /\ ret.op = "getLastActivity" /\ ret.reads = 0
    /\ stats.totalUpdates = 2 /\ stats.totalFlushes = 0
    /\ DOMAIN activityCache = {ret.jid}
    /\ now > 1
    /\ ret.value = now

----------------------------------------------------------------------------
(* Claims about the tracker's lifecycle, checked under LifecycleSpec *)

\* C11: with tracking disabled, no recordActivity, getLastActivity,
\* getAllActivities, flush, start or stop call changes the buffer, the dirty
\* flag or the statistics, starts a store read or a transaction, writes the
\* store or arms a timer; getLastActivity returns absent without a read and
\* getAllActivities returns the empty map, whatever an earlier run persisted.
C11_DisabledTrackerDoesNothing ==
    [][~trackerEnabled
          => /\ activityCache' = activityCache /\ activityCache = EmptyMap
             /\ isDirty' = isDirty
             /\ stats' = stats
             /\ activityStore' = activityStore
             /\ gpc' = "idle"
             /\ \A f \in Flushers : fpc'[f] = "idle"
             /\ ~flushInterval' /\ timers' = 0
             /\ ret'.op = "getLastActivity" => (ret'.value = -1 /\ ret'.reads = 0)
             /\ ret'.op = "getAllActivities" => ret'.value = EmptyMap
             /\ ret'.op = "flush" => (ret'.outcome = "skipped" /\ ret'.txns = 0)
             /\ ret'.op = "start" => (ret'.flushCalls = 0 /\ ret'.armed = 0)]_vars

\* with tracking disabled, getLastActivity has just returned absent for an
\* identity that an earlier run persisted
C11_Witness ==
    /\ ~trackerEnabled
    /\ ret.op = "getLastActivity" /\ ret.value = -1
    /\ ActivityKey(ret.jid) \in DOMAIN activityStore
    /\ stats.totalUpdates = 0 /\ timers = 0

\* C12: a start() on an enabled tracker whose timer is not armed calls
\* flush() once (a dirty buffer is handed whole to one transaction) and sets
\* one interval timer; a start() while the timer is armed calls no flush(),
\* sets no timer and changes nothing; so at most one timer is ever live.
C12_StartOnceArmsOneTimer ==
    [][/\ timers' <= 1
       /\ flushInterval' <=> timers' = 1
       /\ (trackerEnabled /\ ret'.op = "start")
             => IF flushInterval
                  THEN /\ ret'.flushCalls = 0 /\ ret'.armed = 0
                       /\ timers' = timers /\ flushInterval'
                       /\ fpc' = fpc /\ fupdates' = fupdates
                       /\ activityStore' = activityStore
                       /\ activityCache' = activityCache /\ stats' = stats
                  ELSE /\ ret'.flushCalls = 1 /\ ret'.armed = 1
                       /\ timers' = 1 /\ flushInterval'
                       /\ Cardinality({f \in Flushers : FlushStarts(f)})
                             = IF isDirty /\ activityCache # EmptyMap THEN 1 ELSE 0
                       /\ \A f \in Flushers :
                             FlushStarts(f) => /\ forigin'[f] = "start"
                                               /\ CoversBuffer(fupdates'[f], activityCache)]_vars

\* a second start() has just returned while the flush begun by the first one
\* is still awaiting its transaction: one timer, one flush in progress
C12_Witness ==
    /\ ret = StartReturns(0, 0)
    /\ trackerEnabled /\ flushInterval /\ timers = 1
    /\ Cardinality({f \in Flushers : fpc[f] = "txn"}) = 1
    /\ \E f \in Flushers : fpc[f] = "txn" /\ forigin[f] = "start"

\* the step is stop() up to the await inside its flush()
StopCalled(f) ==
    /\ fpc[f] = "idle"
    /\ \/ (fpc'[f] = "txn" /\ forigin'[f] = "stop")
       \/ (ret'.op = "flush" /\ ret'.by = f /\ ret'.origin = "stop")

\* C13: stop() cancels the timer before it calls flush(), and that flush()
\* offers every entry buffered at that moment; when its transaction commits,
\* stop() returns with every one of those entries in the store under its
\* buffered timestamp; the timer callback runs only while a timer is live, so
\* none runs after stop() until a later start().
C13_StopCancelsThenFlushes ==
    [][\A f \in Flushers :
          /\ StopCalled(f)
                => /\ ~flushInterval' /\ timers' = 0
                   /\ IF isDirty /\ activityCache # EmptyMap /\ trackerEnabled
                        THEN /\ fpc'[f] = "txn"
                             /\ CoversBuffer(fupdates'[f], activityCache)
                        ELSE ret'.outcome = "skipped" /\ activityCache = EmptyMap
          /\ (fpc[f] = "txn" /\ forigin[f] = "stop" /\ FlushReturns(f, "ok"))
                => /\ ret'.origin = "stop"
                   /\ \A k \in DOMAIN fupdates[f] :
                         k \in DOMAIN activityStore' /\ activityStore'[k] = fupdates[f][k]
                   /\ activityCache' = EmptyMap
          /\ (fpc[f] = "idle"
                /\ \/ (fpc'[f] = "txn" /\ forigin'[f] = "timer")
                   \/ (ret'.op = "flush" /\ ret'.by = f /\ ret'.origin = "timer"))
                => (flushInterval /\ timers > 0)]_vars

\* stop() has just returned after its final flush persisted two buffered
\* identities of a started tracker; no timer is left
C13_Witness ==
    /\ ret.op = "flush" /\ ret.origin = "stop" /\ ret.outcome = "ok"
    /\ Cardinality(DOMAIN ret.written) = 2
    /\ \A k \in DOMAIN ret.written : k \in DOMAIN activityStore /\ activityStore[k] = ret.written[k]
    /\ ~flushInterval /\ timers = 0
    /\ activityCache = EmptyMap

----------------------------------------------------------------------------
(* Claims about the decryption pipeline, checked under DecryptSpec *)

CipherTypes == {"pkmsg", "msg", "skmsg"}

\* the error the cipher call of this step rejected with (NoError when the
\* step is not a failing cipher call)
CipherFailure ==
    IF dec.pc = "cipher" /\ dec.node.tag = "enc" /\ dec.node.type \in CipherTypes
      THEN (IF dec'.pc = "loop" THEN
               (IF ret'.result = "stub" /\ ret'.err \in CipherErrors THEN ret'.err
                ELSE NoError)
            ELSE dec'.err)
      ELSE NoError

\* the cipher calls made so far for the current node, this step's included
CipherCalls == IF dec'.pc = "loop" THEN ret'.attempts ELSE dec'.attempt

\* the device range of a decryption identity: index 0 to 5 and its own index
DeviceRange(jid) == {[jid EXCEPT !.device = d] : d \in (0..5) \cup {jid.device}}

\* fullMessage carries the CIPHERTEXT stub with msg as its parameter
StubbedWith(d, msg) == d.stubType = "CIPHERTEXT" /\ d.stubParams = <<msg>>

\* C14: when a cipher call fails with a corrupted-session error, the cipher
\* is not called again for that node (one call in all when it is the first
\* failure); with autoCleanCorrupted, deleteSession is invoked with the
\* decryption identity's device range, without it nothing is deleted; and
\* whether or not the deletion succeeds the node ends with the CIPHERTEXT stub
\* carrying the error text.
C14_CorruptedSessionNoRetryCleansStubs ==
    [][/\ (CipherFailure # NoError /\ isCorruptedSessionError(CipherFailure))
            => /\ CipherCalls = dec.attempt + 1
               /\ dec.attempt = 0 => CipherCalls = 1
               /\ IF dec.autoCleanCorrupted
                    THEN /\ dec'.pc = "cleaning"
                         /\ {dec'.deleted[i] : i \in 1..Len(dec'.deleted)}
                               = DeviceRange(dec.decryptionJid)
                         /\ dec'.err = CipherFailure
                    ELSE /\ dec'.pc = "loop"
                         /\ ret'.deleted = <<>> /\ ret'.cleanup = "none"
                         /\ StubbedWith(dec', CipherFailure)
       /\ dec.pc = "cleaning"
            => /\ dec'.pc = "loop"
               /\ ret'.cleanup \in {"ok", "threw"}
               /\ ret'.attempts = dec.attempt
               /\ StubbedWith(dec', dec.err)]_vars

\* the first cipher call for a pkmsg of device 7 failed with Bad MAC: it was
\* the only call, the seven identities were handed to deleteSession, and the
\* stub carries "Bad MAC"
C14_Witness ==
    /\ ret.op = "decryptNode" /\ ret.err = BAD_MAC_ERROR_TEXT
    /\ ret.attempts = 1 /\ ret.node.type = "pkmsg"
    /\ ret.jid.device = 7 /\ Len(ret.deleted) = 7
    /\ ret.cleanup = "threw"
    /\ StubbedWith(dec, BAD_MAC_ERROR_TEXT)

\* C15: the cipher is called at most 3 times for one node; a node whose last
\* failure is a missing-session-record error had exactly 3 calls, triggers no
\* session deletion and ends with the CIPHERTEXT stub carrying that error; a
\* call that succeeds on any attempt, its plaintext decoding as a message,
\* sets the message and leaves the stub fields as they were.
C15_MissingSessionThreeAttempts ==
    [][/\ dec'.attempt <= MAX_ATTEMPTS
       /\ (CipherFailure # NoError /\ isSessionRecordError(CipherFailure))
            => /\ CipherCalls <= 3
               /\ dec'.pc \in {"cipher", "loop"}
               /\ dec'.pc = "cipher" <=> CipherCalls < 3
               /\ dec'.pc = "loop"
                     => /\ ret'.attempts = 3 /\ ret'.result = "stub"
                        /\ ret'.deleted = <<>> /\ ret'.cleanup = "none"
                        /\ StubbedWith(dec', CipherFailure)
       /\ (dec.pc = "cipher" /\ dec.node.type \in CipherTypes
             /\ ret'.op = "decryptNode" /\ ret'.result = "ok")
            => /\ ret'.attempts = dec.attempt + 1 /\ ret'.attempts <= 3
               /\ dec'.message
               /\ dec'.stubType = dec.stubType /\ dec'.stubParams = dec.stubParams
               /\ ret'.deleted = <<>>]_vars

\* a node has just ended as a stub after three cipher calls, the last failing
\* with "No session record"
C15_Witness ==
    /\ ret.op = "decryptNode" /\ ret.err = NoSessionRecord
    /\ ret.attempts = 3 /\ ret.result = "stub"
    /\ ret.deleted = <<>>
    /\ StubbedWith(dec, NoSessionRecord)

\* C16: when a cipher call fails with an error that is neither a
\* missing-session-record error nor a corrupted-session error, the cipher is
\* not called again for that node.
C16_UnclassifiedErrorNotRetried ==
    [][(CipherFailure # NoError
          /\ ~isSessionRecordError(CipherFailure)
          /\ ~isCorruptedSessionError(CipherFailure))
            => dec'.pc # "cipher"]_vars

\* C17: decrypt() never rejects; a node that fails to decrypt, whatever the
\* error and whether or not the cleanup succeeds, leaves the CIPHERTEXT stub
\* with the error as its parameter, and a stanza without a decryptable child
\* that is not view-once ends with the CIPHERTEXT stub "Message absent from
\* node".
C17_DecryptNeverThrowsAlwaysStubs ==
    /\ dec.pc # "thrown"
    /\ (ret.op = "decryptNode" /\ ret.result = "stub")
          => (ret.err # NoError /\ StubbedWith(dec, ret.err))
    /\ (dec.pc = "done" /\ dec.decryptables = 0 /\ ~dec.isViewOnce)
          => StubbedWith(dec, NO_MESSAGE_FOUND_ERROR_TEXT)

\* C18: getDecryptionJid returns a LID or hosted-LID sender unchanged without
\* a getLIDForPN call; for any other sender it makes one call and returns the
\* sender's LID (same user and device) when the mapping store has one, the
\* sender itself when it has none.
C18_DecryptionJidResolution ==
    [][(dec.pc \in {"loop", "lookup"} /\ dec'.pc \in {"storing", "cipher"})
          => IF dec.author.server \in {"lid", "hosted.lid"}
               THEN dec'.decryptionJid = dec.author /\ dec'.lookups = 0
               ELSE /\ dec'.lookups = 1
                    /\ dec'.decryptionJid =
                          IF dec.author.user \in lidMapped
                            THEN [user |-> dec.author.user, device |-> dec.author.device,
                                  server |-> "lid"]
                            ELSE dec.author]_vars

\* the cipher is about to be called under the LID of a phone-number sender of
\* device 7, found by one lookup
C18_Witness ==
    /\ dec.pc = "cipher" /\ dec.attempt = 0
    /\ dec.author = PnJid("u1", 7)
    /\ dec.lookups = 1
    /\ dec.decryptionJid = [user |-> "u1", device |-> 7, server |-> "lid"]

\* the envelope's alternate identity of the sender is a LID
AltIsLid(d) ==
    /\ d.attrs.alt_lid
    /\ IF d.attrs.addressing_mode = "" THEN d.author.server \notin {"lid", "hosted.lid"}
       ELSE d.attrs.addressing_mode = "pn"

\* C19: for a decryptable child, storeLIDPNMappings is called exactly when the
\* child is not plaintext, the alternate identity is a LID, the sender is a
\* phone-number address and the mapping store had no LID for it;
\* migrateSession is called only after that call has returned (the mapping
\* then being in the store) and not when it threw; whatever the two calls do,
\* the try block with the decryption attempt comes next.
C19_EnvelopeMappingThenMigration ==
    [][/\ (dec.pc \in {"loop", "lookup"} /\ dec'.pc \in {"storing", "cipher"})
            => (dec'.pc = "storing"
                  <=> /\ dec'.node.tag # "plaintext"
                      /\ AltIsLid(dec)
                      /\ dec.author.server = "s.whatsapp.net"
                      /\ dec.author.user \notin lidMapped)
       /\ dec'.pc = "migrating"
            => /\ dec.pc = "storing" /\ dec'.stored = "ok"
               /\ dec.author.user \in lidMapped'
       /\ dec.pc = "storing"
            => /\ dec'.pc \in {"migrating", "cipher"}
               /\ dec'.pc = "cipher" <=> dec'.stored = "threw"
               /\ dec'.migrated = "no"
       /\ dec.pc = "migrating" => dec'.pc = "cipher"
       /\ dec'.stored = "no" => dec'.migrated = "no"
       /\ (ret'.op = "decryptNode" /\ ret'.stored # "no") => ret'.node.tag = "enc"
       /\ (ret'.op = "decryptNode" /\ ret'.stored # "no"
             /\ ret'.node.type \in CipherTypes) => ret'.attempts >= 1]_vars

\* a pkmsg whose envelope gave the LID of an unmapped phone-number sender has
\* just been decrypted after the mapping was stored and the migration failed
C19_Witness ==
    /\ ret.op = "decryptNode" /\ ret.result = "ok"
    /\ ret.node.type = "pkmsg"
    /\ ret.stored = "ok" /\ ret.migrated = "threw"
    /\ ret.attempts = 1
    /\ dec.author.user \in lidMapped


----------------------------------------------------------------------------
(* Error handling of runCleanup, checked under CleanupSpec *)

\* this step is where call c learns how its read of the session keys settled
KeysSettle(c) == call[c].pc = "keys" /\ call'[c].pc # "keys"

\* this step is where call c learns how getAllActivities() settled
ActivitiesSettle(c) == call[c].pc = "activities" /\ call'[c].pc # "activities"

\* what shouldCleanupSession answers for session key a in the iteration of call c
WouldSelect(c, a) ==
    LET parsed == parseSessionMetadata(a, a.user \in lidMapped)
    IN shouldCleanupSession([parsed EXCEPT !.lastActivityMs = ActivitySeen(c, a)], now).cleanup

\* the step counted one more error for call c
CountsOneError(c) == StatsAfter(c).errors = call[c].stats.errors + 1

\* C20: runCleanup never throws: every run that passed the guard ends by
\* returning its statistics with cleanupRunning false; a failure while
\* enumerating the sessions, while reading the activities, while classifying a
\* key or while committing the deletion adds one to the errors that are
\* returned; and a runCleanup triggered when no run is in progress is never
\* skipped (it scans the store again).
C20_RunCleanupCountsEveryFailure ==
    [][\A c \in Callers :
          /\ call[c].pc # "idle" => StatsAfter(c).errors >= call[c].stats.errors
          /\ (KeysSettle(c) /\ ~call[c].keysRead.ok) => CountsOneError(c)
          /\ (ActivitiesSettle(c) /\ ~call[c].read.ok) => CountsOneError(c)
          /\ \A a \in SessionAddrs :
                (Classifies(c, a) /\ WouldSelect(c, a) /\ ~Selects(c, a))
                    => CountsOneError(c)
          /\ (call[c].pc = "deleting" /\ call'[c].pc = "idle" /\ ~ret'.committed)
                => CountsOneError(c)
          /\ (call[c].pc # "idle" /\ call'[c].pc = "idle")
                => /\ ret'.op = "runCleanup" /\ ret'.by = c /\ ~ret'.guarded
                   /\ ~cleanupRunning'
          /\ (call[c].pc = "idle" /\ ret'.op = "runCleanup" /\ ret'.by = c /\ ret'.guarded)
                => (cleanupRunning \/ ~cleanupEnabled)]_vars


----------------------------------------------------------------------------
(* Properties of the cleanup scheduler, checked under SchedulerSpec *)

\* the runCleanup() calls that are past the guard
RunsInProgress == {c \in Callers : call[c].pc # "idle"}

\* C21: with cleanupOnStartup, the first start() launches one cleanup run at
\* once and sets the timer of the first timed run; as long as start() was
\* called once, the timeout callback calls runCleanup only when the startup
\* run is over (it is never dropped by the guard because of it), and an
\* interval exists, and fires, only after the timed run has completed.
C21_StartupRunThenTimedThenRecurring ==
    [][/\ (ret'.op = "start" /\ ret'.scheduled /\ cleanupOnStartup /\ timeouts = <<>>)
            => /\ ret'.launched /\ ~ret'.skipped
               /\ RunsInProgress = {} /\ Cardinality(RunsInProgress') = 1
               /\ cleanupRunning'
               /\ startupCleanupPromise' = 1
               /\ Len(timeouts') = 1 /\ timeouts'[1].state = "armed"
               /\ intervals' = <<>>
       /\ (Len(timeouts') = 1 /\ cleanupOnStartup /\ ret'.op = "timedRun")
            => /\ promises[1].settled /\ RunOver(promises[1].run)
               /\ ~cleanupRunning /\ ~ret'.skipped
       /\ (Len(timeouts') = 1 /\ intervals' # <<>>) => timeouts'[1].state = "done"
       /\ (Len(timeouts') = 1 /\ ret'.op = "intervalRun")
            => timeouts[1].state = "done"]_vars

\* the timer fired while the startup run was in progress, the callback waited
\* for it, made the timed run and set the interval, and the interval has
\* just triggered a run that passed the guard
C21_Witness ==
    /\ cleanupOnStartup /\ Len(timeouts) = 1
    /\ timeouts[1].state = "done" /\ timeouts[1].waits = 1 /\ timeouts[1].run # "none"
    /\ ret.op = "intervalRun" /\ ~ret.skipped


----------------------------------------------------------------------------
(* Properties of the app state sync, checked under SyncSpec *)

\* this step handled a decoding failure of a collection with a missing-key error
MissingKeyFailure == ret'.op = "syncCollection" /\ ret'.error = "missingKey"

\* C22: a collection whose decoding fails with a missing-key error stays to be
\* handled and gets return_snapshot in the next query as long as its attempts
\* are below MAX_SYNC_ATTEMPTS; when they reach it the collection is parked in
\* blockedCollections and taken off the call, its persisted version as it
\* was; a creds.update with myAppStateKeyId that finds collections parked
\* while the socket is not Syncing calls resyncAppState for exactly them and
\* empties the set.
C22_MissingKeyRetriedThenParkedThenResynced ==
    [][/\ MissingKeyFailure
            => /\ ret'.attempt <= MAX_SYNC_ATTEMPTS
               /\ versions'[ret'.name] = versions[ret'.name]
               /\ IF ret'.attempt < MAX_SYNC_ATTEMPTS
                  THEN /\ ret'.name \in rs'.toHandle /\ ret'.name \in rs'.force
                       /\ blockedCollections' = blockedCollections
                  ELSE /\ ret'.name \notin rs'.toHandle
                       /\ blockedCollections' = blockedCollections \cup {ret'.name}
       /\ ret'.op = "syncQuery"
            => (rs.force \cap rs.toHandle) \subseteq ret'.snapshots
       /\ (ret'.op = "creds.update" /\ ret'.hasKeyId /\ blockedCollections # {}
           /\ syncState # "Syncing")
            => /\ ret'.resyncs = blockedCollections
               /\ blockedCollections' = {}
               /\ resyncQueue' = Append(resyncQueue, [collections |-> blockedCollections,
                                                      isInitialSync |-> FALSE,
                                                      origin |-> "creds.update"])]_vars

\* both collections were parked by a resync of a socket that is Online, their
\* versions are still in the store, and the creds.update that brought the key
\* has just asked for the re-sync of the two
C22_Witness ==
    /\ ret.op = "creds.update" /\ ret.hasKeyId /\ ret.resyncs = Collections
    /\ syncState = "Online"
    /\ blockedCollections = {}
    /\ versions = [n \in Collections |-> 1]
    /\ resyncQueue # <<>>
    /\ resyncQueue[Len(resyncQueue)] = [collections |-> Collections, isInitialSync |-> FALSE,
                                        origin |-> "creds.update"]

----------------------------------------------------------------------------
(* Properties of the LID mapping store, checked under LookupSpec *)

\* the resolutions of a key that are in flight
InFlight(key) == {r \in 1..Len(lookups) : lookups[r].key = key /\ Unsettled(r)}

\* C23: the getLIDForPN calls made for a key while a resolution of it is in
\* flight share that resolution: a key never has two resolutions in flight, a
\* resolution sends at most one network query, every caller that awaited it
\* gets what it settled with, and pendingRequests holds an entry for a key
\* exactly while a resolution of it is in flight, whether it then settles
\* with a mapping, with nothing or with an error.
C23_ConcurrentLookupsShareOneResolution ==
    /\ \A key \in LookupKeys :
          /\ Cardinality(InFlight(key)) <= 1
          /\ IF pendingRequests[key] = 0
             THEN InFlight(key) = {}
             ELSE InFlight(key) = {pendingRequests[key]}
    /\ \A r \in 1..Len(lookups) : lookups[r].fetches <= 1
    /\ \A c \in 1..Len(lookupCalls) :
          lookupCalls[c].res # 0
             => /\ lookupCalls[c].res \in 1..Len(lookups)
                /\ lookups[lookupCalls[c].res].key = lookupCalls[c].key
    /\ (ret.op = "getLIDForPN" /\ ret.res # 0)
          => /\ ~Unsettled(ret.res)
             /\ ret.result = lookups[ret.res].result

\* three calls for the same key missed cache and database, one network query
\* was sent, it found nothing, the three callers got that answer and the
\* table holds nothing for the key
C23_Witness ==
    /\ Len(lookupCalls) = 3
    /\ \A c \in 1..3 : lookupCalls[c] = [key |-> "pn2", res |-> 1, returned |-> TRUE]
    /\ Len(lookups) = 1
    /\ lookups[1] = [key |-> "pn2", state |-> "settled", result |-> "none", fetches |-> 1]
    /\ pendingRequests["pn2"] = 0
    /\ ret.op = "getLIDForPN" /\ ret.result = "none"

\* this step ended a storeLIDPNMappings call made with the batch of the call
\* before it
SecondApplication == ret'.op = "storeLIDPNMappings" /\ ret'.batch = lastStore.batch

\* no step of the call changed the store or either cache
StoreLeftAsItWas ==
    /\ ret'.stored = 0
    /\ UNCHANGED <<mappingStore, lidCache, pnCache>>

\* the steps of a call before its transaction write nothing
StoreWritesOnlyInTransaction ==
    storeCall.pc # "txn" => UNCHANGED <<mappingStore, lidCache, pnCache>>

----------------------------------------------------------------------------
(* Properties of the session migration, checked under MigrationSpec *)

\* the devices that hold a session record under both addresses
UnderBoth(store) == {d \in Devices : PnAddr(d) \in store /\ LidAddr(d) \in store}

UnderNeither(store) == {d \in Devices : PnAddr(d) \notin store /\ LidAddr(d) \notin store}

\* C25: the step that ends the transaction of a migrateSession call either
\* moves the record of every device that had an operation (the LID address
\* holds it, the phone-number address no longer does) or leaves the store as
\* it was, no other step of a call touches the store, and no device that had
\* a record before a step is without one after it.
C25_MigrationIsOneTransaction ==
    [][/\ \/ sessionStore' = sessionStore
          \/ /\ migration.pc = "txn"
             /\ migration.ops # {}
             /\ ret'.op = "migrateSession" /\ ret'.ok
             /\ ret'.migrated = Cardinality(migration.ops)
             /\ \A d \in migration.ops : PnAddr(d) \notin sessionStore' /\ LidAddr(d) \in sessionStore'
             /\ \A d \in Devices \ migration.ops :
                   /\ PnAddr(d) \in sessionStore' <=> PnAddr(d) \in sessionStore
                   /\ LidAddr(d) \in sessionStore' <=> LidAddr(d) \in sessionStore
       /\ (ret'.op = "migrateSession" /\ ~ret'.ok) => sessionStore' = sessionStore
       /\ UnderNeither(sessionStore') = UnderNeither(sessionStore)]_vars

\* the scenario of two devices with a session each: one commit moved both
C25_Witness ==
    /\ ret.op = "migrateSession" /\ ret.ok /\ ret.migrated = 2 /\ ret.skipped = 0
    /\ migrationsMade = 1
    /\ sessionStore = {LidAddr(d) : d \in Devices}
    /\ \A d \in Devices : migratedSessionCache[d] = now

----------------------------------------------------------------------------
(* Properties of the 'lid-mapping.update' handler, checked under MergeSpec *)

\* the handler of an event has just finished
HandledMappingUpdate == ret'.op = "lid-mapping.update"

\* the notification of the merge of the chat of a mapping
MergeOf(m) ==
    [id |-> jidNormalizedUser(m.pn), merged |-> TRUE, previousId |-> jidNormalizedUser(m.lid),
     mergedAt |-> now]

\* the notifications of the 'chats.update' that a step emitted, if it did
NotifiedBy(step) ==
    IF step.after.count = step.before.count THEN {}
    ELSE {step.after.last[i] : i \in DOMAIN step.after.last}

\* C27 as stated: after a call that did not throw there is a notification for
\* every mapping of the event whose normalized LID and PN differ.
C27_Original ==
    [][(HandledMappingUpdate /\ ~ret'.threw)
          => \A i \in DOMAIN ret'.mappings :
                jidNormalizedUser(ret'.mappings[i].lid) # jidNormalizedUser(ret'.mappings[i].pn)
                   => MergeOf(ret'.mappings[i]) \in NotifiedBy([before |-> emitted,
                                                                after |-> emitted'])]_vars

\* C27 amended: after storeLIDPNMappings returned, whatever it counted as
\* errors, the handler emits at most one 'chats.update', whose notifications
\* are exactly {id: PN, merged: true, previousId: LID} for the mappings of the
\* event whose normalized LID and PN are both non-empty and differ; after it
\* threw, and in every other step, nothing is emitted.
C27_MergeNotifiedForEveryStoredEvent ==
    [][/\ \/ emitted' = emitted
          \/ /\ HandledMappingUpdate
             /\ emitted'.count = emitted.count + 1
       /\ (HandledMappingUpdate /\ ret'.threw) => emitted' = emitted
       /\ (HandledMappingUpdate /\ ~ret'.threw)
            => NotifiedBy([before |-> emitted, after |-> emitted']) =
                  {MergeOf(ret'.mappings[i]) : i \in
                     {j \in DOMAIN ret'.mappings :
                        /\ jidNormalizedUser(ret'.mappings[j].lid) # NoJid
                        /\ jidNormalizedUser(ret'.mappings[j].pn) # NoJid
                        /\ jidNormalizedUser(ret'.mappings[j].lid)
                             # jidNormalizedUser(ret'.mappings[j].pn)}}]_vars

\* an event of two mappings was handled: the write of one failed in the
\* store, and the 'chats.update' carries the merge of both
C27_Witness ==
    /\ ret.op = "lid-mapping.update" /\ ~ret.threw /\ ret.errors = 1
    /\ Len(ret.mappings) = 2
    /\ emitted.count = 1
    /\ Len(emitted.last) = 2
    /\ emitted.last[1].id = PnJid("pn1", 0) /\ emitted.last[1].previousId = LidJid("lidA")
    /\ emitted.last[2].id = PnJid("pn2", 0) /\ emitted.last[2].merged

----------------------------------------------------------------------------
(* Properties of the offline-buffer timer, checked under BufferSpec *)

\* C28: after one startBuffer, whatever the order of the expiry of the timer,
\* of the CB:ib,,offline arrivals and of the close of the socket, ev.flush()
\* is called at most once, and no step calls it once end() has run.
C28_OfflineBufferFlushedAtMostOnce ==
    [][/\ bufferFlushes' <= 1
       /\ socketClosed => bufferFlushes' = bufferFlushes]_vars

\* the timer expired and flushed, two CB:ib,,offline arrived after it and the
\* socket was closed: one flush in all
C28_Witness ==
    /\ bufferTimer.state = "fired"
    /\ warnCalls = 1
    /\ bufferFlushes = 1
    /\ offlineArrivals = 2
    /\ socketClosed
    /\ ~didStartBuffer /\ offlineBufferTimeout = 0

----------------------------------------------------------------------------
(* Properties of the bad-ack retry, checked under AckSpec *)

\* the pair (normalized jid, message id) of an ack
PairOf(attrs) == [jid |-> [attrs.from EXCEPT !.device = 0], id |-> attrs.id]

\* the step handled an ack
AckHandled == acksHandled' = acksHandled + 1

\* the ack that the step handled went on to fetch the message: a retry began
RetryBegan == Len(ackCalls') = Len(ackCalls) + 1

\* C29: the retries of one pair (normalized jid, message id) begin at least
\* 60 seconds apart and each relays at most once; a 463 ack for a pair whose
\* key is held emits ERROR without fetching or relaying, whatever other keys
\* are held a 463 ack with a message id for a pair whose key is not held
\* begins a retry, the key of a pair is not held once it expired, and an ack
\* with another error code emits ERROR without fetching or relaying.
C29_OneRetryPerPairAndWindow ==
    [][/\ \A c, d \in 1..Len(ackCalls') :
             (c < d /\ PairOf(ackCalls'[c].attrs) = PairOf(ackCalls'[d].attrs))
                => ackCalls'[d].startedAt - ackCalls'[c].startedAt >= RETRY_KEY_TTL_MS
       /\ \A c \in 1..Len(ackCalls') : ackCalls'[c].relays <= 1
       /\ AckHandled =>
            LET attrs == IF RetryBegan THEN ackCalls'[Len(ackCalls')].attrs ELSE ret'.attrs
            IN IF attrs.error = "463" /\ attrs.id # ""
                  /\ PairOf(attrs) \notin tcTokenRetriedMsgIds
               THEN /\ RetryBegan
                    /\ PairOf(attrs) \in tcTokenRetriedMsgIds'
               ELSE /\ ~RetryBegan
                    /\ ret' = ErrorEmitted(attrs, FALSE, FALSE)
                    /\ UNCHANGED tcTokenRetriedMsgIds
       /\ \A timer \in retryKeyTimers \ retryKeyTimers' :
             /\ now >= timer.due
             /\ timer.key \notin tcTokenRetriedMsgIds'
       /\ \A key \in tcTokenRetriedMsgIds' : \E timer \in retryKeyTimers' : timer.key = key]_vars

\* a pair was retried, a second 463 for it from another device of the sender
\* was answered with ERROR inside the window, and after the key expired the
\* pair was retried again
C29_Witness ==
    /\ acksHandled = 3
    /\ Len(ackCalls) = 2
    /\ ackCalls[1].attrs = [id |-> "msg-A", from |-> PnJid("pn1", 0), error |-> "463"]
    /\ ackCalls[2].attrs = [id |-> "msg-A", from |-> PnJid("pn1", 1), error |-> "463"]
    /\ ackCalls[1].relays = 1 /\ ackCalls[2].relays = 1
    /\ ret.op = "handleBadAck" /\ ret.action = "retry_succeeded"
    /\ ret.attrs = ackCalls[2].attrs

----------------------------------------------------------------------------
(* Properties of buildTcTokenFromJid, checked under TcTokenSpec *)

\* the step is the return of a buildTcTokenFromJid call
BuildReturned == ret'.op = "buildTcTokenFromJid"

\* the result carries a tctoken node
AttachesToken(result) ==
    result.defined /\ \E i \in 1..Len(result.nodes) : result.nodes[i].tag = "tctoken"

\* the base content, or undefined when there is none
AttachesNothing(r) ==
    r.result = IF r.baseContent = <<>> THEN [defined |-> FALSE, nodes |-> <<>>]
               ELSE [defined |-> TRUE, nodes |-> r.baseContent]

\* C30: a call of buildTcTokenFromJid returns a tctoken node only when it
\* read a non-empty token whose timestamp is not expired; when it read a
\* non-empty token that is expired or has no timestamp it called keys.set
\* once, the entry is gone from the store when that write succeeded, and the
\* result is the base content or undefined; when it read no token it called
\* keys.set never; and when the store or the resolver threw, the call still
\* returned the base content or undefined.
C30_TokenAttachedOnlyWhenFresh ==
    [][BuildReturned =>
         LET r == ret'
             fresh == /\ r.entry.timestamp.kind = "number"
                      /\ ~isTcTokenExpired(r.entry.timestamp, r.at)
         IN /\ AttachesToken(r.result) =>
                 /\ r.entry.stored /\ r.entry.token \notin {"undefined", ""}
                 /\ fresh
                 /\ r.result.nodes = Append(r.baseContent, TcTokenNode(r.entry.token))
            /\ (r.entry.stored /\ r.entry.token \notin {"undefined", ""} /\ ~fresh) =>
                 /\ r.setCalls = 1
                 /\ ~r.storeThrew => tcTokens'[r.storageJid] = NoTcEntry
                 /\ AttachesNothing(r)
            /\ (~r.entry.stored \/ r.entry.token = "undefined") =>
                 /\ r.setCalls = 0
                 /\ tcTokens' = tcTokens
            /\ r.storeThrew => AttachesNothing(r)]_vars

\* a token that was fresh when the socket started was read one bucket later,
\* expired by then, and deleted, the caller getting its base content back
C30_Witness ==
    /\ ret.op = "buildTcTokenFromJid"
    /\ ret.entry = [stored |-> TRUE, token |-> "tok",
                    timestamp |-> Seconds(TC_TOKEN_BUCKET_DURATION),
                    senderTimestamp |-> NoTimestamp]
    /\ ret.at = TcEpoch + TC_TOKEN_BUCKET_DURATION
    /\ ret.storageJid = LidJid("lidA")
    /\ ret.setCalls = 1 /\ ~ret.storeThrew
    /\ tcTokens[LidJid("lidA")] = NoTcEntry
    /\ ret.result = [defined |-> TRUE, nodes |-> <<PictureNode>>]

----------------------------------------------------------------------------
(* Properties of storeTcTokensFromIqResult, checked under TcStoreSpec *)

\* C31: in every step of any interleaving of storeTcTokensFromIqResult
\* calls, the timestamp stored for a storage jid does not decrease, an entry
\* that is written carries a timestamp, and its senderTimestamp stays what
\* it was.
C31_StoredTimestampNeverDecreases ==
    [][\A jid \in TcStorageJids :
         /\ NumberOrZero(tcTokens'[jid].timestamp) >= NumberOrZero(tcTokens[jid].timestamp)
         /\ tcTokens'[jid] # tcTokens[jid] => NumberOrZero(tcTokens'[jid].timestamp) > 0
         /\ tcTokens'[jid].senderTimestamp = tcTokens[jid].senderTimestamp]_vars

----------------------------------------------------------------------------
(* Properties of cleanupCorruptedSession, checked under CorruptedSpec *)

\* the identities the claim names for a decryption identity
NamedForDeletion(jid) ==
    {[user |-> jid.user, device |-> d, server |-> jid.server] :
        d \in (0..5) \cup (IF jid.device > 5 THEN {jid.device} ELSE {})}

\* C32: a call of cleanupCorruptedSession for a decodable identity hands to
\* deleteSession exactly the decoded user at devices 0 to 5, and at the
\* decoded device when that is above 5, all with the server of the identity,
\* and the deletion removes no session but those; a call for an identity
\* that cannot be decoded returns 0 without calling deleteSession.
C32_DeletesTheDeviceRangeOfOneUser ==
    [][/\ (corruptedCall.pc = "idle" /\ corruptedCall'.pc = "deleteSession") =>
            /\ corruptedCall'.jid.user # ""
            /\ SeqRange(corruptedCall'.jids) = NamedForDeletion(corruptedCall'.jid)
       /\ (corruptedCall.pc = "idle" /\ corruptedCall'.pc = "idle") =>
            /\ corruptedCall'.jid.user = ""
            /\ ret'.count = 0
            /\ signalSessions' = signalSessions
       /\ corruptedCall.pc = "deleteSession" =>
            /\ signalSessions \ signalSessions' \subseteq NamedForDeletion(corruptedCall.jid)
            /\ ret'.outcome = "returned" =>
                 /\ signalSessions' \cap NamedForDeletion(corruptedCall.jid) = {}
                 /\ ret'.count = Cardinality(NamedForDeletion(corruptedCall.jid))]_vars

\* the sessions of u1's phone-number devices 0, 3 and 7 were deleted for a
\* corrupted session of device 7, those of device 6, of u1's LID and of u2
\* were kept
C32_Witness ==
    /\ ret.op = "cleanupCorruptedSession" /\ ret.outcome = "returned" /\ ret.count = 7
    /\ corruptedCall.jid = PnJid("u1", 7)
    /\ signalSessions = {PnJid("u1", 6), PnJid("u2", 0), LidJid("u1"),
                         [user |-> "u1", device |-> 7, server |-> "hosted.lid"]}

----------------------------------------------------------------------------
(* The tracker under interleaving, checked under TrackerSpec *)

\* the most recent activity of an identity that the tracker still holds, in
\* its buffer or in the store; -1 when it holds none
LatestHeld(cache, store, jid) ==
    LET buffered == MapGet(cache, jid)
        persisted == PersistedActivity(store, jid)
    IN IF buffered >= persisted THEN buffered ELSE persisted

\* C33: no step of the tracker, a flush() that commits while recordActivity
\* went on included, leaves an identity with an older activity, or with
\* none, than the buffer and the store held for it before the step.
C33_RecordedActivityIsNeverLost ==
    [][\A jid \in Jids :
         LatestHeld(activityCache', activityStore', jid)
            >= LatestHeld(activityCache, activityStore, jid)]_vars

----------------------------------------------------------------------------
(* The cleanup against the tracker, checked under CleanupSpec *)

\* the tracker holds, in its buffer or in the store, an activity of the
\* identity that is not older than the orphan threshold
ActiveWithinOrphanThreshold(jid) ==
    LET latest == LatestHeld(activityCache, activityStore, jid)
    IN latest > 0 /\ now - latest <= OrphanMs

\* C34: no step removes from the store an orphan LID session (no phone number
\* known for its LID) of an identity for which the tracker holds an activity
\* within the orphan threshold, whether or not the store read of
\* getAllActivities succeeded.
C34_ActiveOrphanIsNotDeleted ==
    [][\A a \in sessionStore \ sessionStore' :
         (trackerPresent /\ IsLidAddr(a) /\ a.user \notin lidMapped)
            => ~ActiveWithinOrphanThreshold(LookupJid(a))]_vars

----------------------------------------------------------------------------
(* The identity of the cipher call, checked under DecryptSpec *)

\* C35: whenever the cipher is called for a pkmsg or msg node, the identity
\* it is given is the one getDecryptionJid returns at that moment, so the LID
\* once storeMappingFromEnvelope has stored the mapping of the sender.
C35_CipherIdentityIsCurrent ==
    [][(dec.pc = "cipher" /\ dec.node.tag = "enc" /\ dec.node.type \in {"pkmsg", "msg"})
         => dec.decryptionJid = getDecryptionJid(dec.author, getLIDForPN(dec.author)).jid]_vars

\* C36: in the statistics every runCleanup returns, totalDeleted is the sum
\* of lidOrphansDeleted, secondaryDevicesDeleted and primaryDevicesDeleted,
\* and is the number of records the run removed from the session store, also
\* when its deletion transaction failed.
C36_DeletionCountersAgree ==
    [][ret'.op = "runCleanup" =>
         /\ ret'.stats.totalDeleted =
               ret'.stats.lidOrphansDeleted + ret'.stats.secondaryDevicesDeleted
                  + ret'.stats.primaryDevicesDeleted
         /\ ret'.stats.totalDeleted = Cardinality(sessionStore \ sessionStore')]_vars

\* a step of the scheduler that calls runCleanup() or arms a timer
SchedulerActs == ret.op \in {"timedRun", "intervalRun", "setInterval"}

\* C37: after stop() of the cleanup scheduler has returned, and for as long as
\* no later start() has set a timer, the scheduler calls no runCleanup() and
\* arms no timer, whatever it was doing when stop() was called
C37_NothingRunsAfterStop ==
    \A n \in 0..MaxStarts :
        []((ret.op = "stop" /\ Len(timeouts) = n)
              => [](Len(timeouts) = n => ~SchedulerActs))

\* first-run timers that are set and have not fired
PendingTimeouts == {h \in DOMAIN timeouts : timeouts[h].state = "armed"}

\* recurring intervals that are set
PendingIntervals == {k \in DOMAIN intervals : intervals[k] = "armed"}

\* startup cleanups that start() launched and the guard of runCleanup let in
StartupCleanups == {p \in DOMAIN promises : promises[p].run # "none"}

\* C38: as long as stop() is never called, whatever the number of start()
\* calls, there is at most one pending first-run timer, at most one recurring
\* interval and at most one startup cleanup
C38_RepeatedStartSchedulesOnce ==
    [](ret.op # "stop") =>
        [](/\ Cardinality(PendingTimeouts) <= 1
           /\ Cardinality(PendingIntervals) <= 1
           /\ Cardinality(StartupCleanups) <= 1)

\* C39: a socket that the connection.update handler left in
\* AwaitingInitialSync, buffering events, is eventually Online (the state in
\* which the buffer has been flushed), whichever way it leaves that state
C39_AwaitingInitialSyncLeadsToOnline ==
    (syncState = "AwaitingInitialSync") ~> (syncState = "Online")

\* the step handled the answer for one collection and took it out of the set
\* of collections the call still has to handle
CollectionRemoved ==
    /\ ret'.op = "syncCollection"
    /\ ret'.name \in rs.toHandle \ rs'.toHandle

\* the step caught the failure of one collection
CollectionFailed == ret'.op = "syncCollection" /\ ret'.error # "none"

====
